---- MODULE Spec2Model ----
(***************************************************************************)
(* A model of the touchgrass desktop backend (tomtev/touchgrass).          *)
(*                                                                         *)
(* PTY Session Manager (pty_manager.rs, setup.rs, state.rs):               *)
(*   sessions        PtyManager.sessions, the live table                   *)
(*   saved_sessions  AppState.saved_sessions                               *)
(*   last_sessions   AppState.last_sessions                                *)
(*   pending         a spawn_session call between the start of its reader  *)
(*                   thread (line 118) and the insert into the live table  *)
(*                   (line 158): <<>> or one call                          *)
(*   ptys            how many ptys were opened with a reader started       *)
(*   readers         the reader threads, one per opened pty, with the      *)
(*                   events each has emitted on the UI bus                 *)
(*   children        the child processes, and the exit-poll thread that    *)
(*                   kill_session starts for each                          *)
(*   ret             what the last command returned to its caller          *)
(*   hist            per id: was it spawned, was kill_session called since *)
(*   calls           rename_session calls made from other threads, each    *)
(*                   between its two critical sections or not running      *)
(*   disk            the state file (config.rs): the saved and last        *)
(*                   sessions it holds, and whether it can be written      *)
(*   thr             commands running on threads of their own, step by     *)
(*                   step, with the locks each holds                       *)
(*                                                                         *)
(* Daemon RPC client (daemon.rs):                                          *)
(*   rpc             one http_request call: what the peer has still to     *)
(*                   send, the response buffer, header_end, content_length *)
(*                   and what the call returned                            *)
(*   eval            one application of a function of daemon.rs to an      *)
(*                   argument: decode_chunked, urlencoding                 *)
(*   restart         one daemon_restart call                               *)
(*                                                                         *)
(* Push Event Server (hook_server.rs):                                     *)
(*   hooksrv         the server and its discovery-port file                *)
(*   conn            one inbound connection and its handler                *)
(*                                                                         *)
(* The commands are #[tauri::command] functions without `async`: the       *)
(* caller runs them one at a time, so each is one action.  spawn_session   *)
(* is two actions because its reader thread runs from line 118 on, before  *)
(* the session is inserted at line 158.  The reader threads, the child     *)
(* processes and the exit-poll threads run concurrently with the commands. *)
(***************************************************************************)
EXTENDS Naturals, Sequences, FiniteSets

VARIABLES sessions, saved_sessions, last_sessions, pending, ptys,
          readers, children, ret, hist, calls, rpc, eval,
          disk, thr, restart, hooksrv, conn

vars == <<sessions, saved_sessions, last_sessions, pending, ptys,
          readers, children, ret, hist, calls, rpc, eval,
          disk, thr, restart, hooksrv, conn>>

-----------------------------------------------------------------------------
(* Bounds of the model *)

\* how many ptys are opened (spawn_session and spawn_setup_pty together)
MaxSessions == 2
\* how many non-empty reads one pty delivers before it closes
MaxReads == 2
\* how many exit-poll threads run at a time in SpecKill
MaxWaiters == 1

(* Program constants *)

\* for _ in 0..20
MaxPolls == 20

-----------------------------------------------------------------------------
(* Values *)

None == "None"

\* uuid::Uuid::new_v4(): the n-th uuid drawn differs from every earlier one
UuidOf(n) == <<"u1", "u2", "u3", "u4", "u5", "u6">>[n]

\* the ids a caller passes: one that no session has (yet) is an unknown id
Ids == {UuidOf(n) : n \in 1..MaxSessions}

RenameLabels == {"X"}

ToolIds == {"t1"}

\* the arguments of spawn_session that reach the state (cwd and dark_mode only
\* reach the child's environment)
SpawnRequests ==
    { [project_id |-> "p1", command |-> "claude", label |-> "A", channel |-> None] }

\* spawn_session arguments that differ in project, command, label and channel
LastRequests ==
    { [project_id |-> "p1", command |-> "claude", label |-> "A", channel |-> None],
      [project_id |-> "p1", command |-> "codex", label |-> "B", channel |-> "c1"],
      [project_id |-> "p2", command |-> "claude", label |-> "A", channel |-> None] }

SessionInfo(id, project_id, label, command, channel, tool_session_id) ==
    [id |-> id, project_id |-> project_id, label |-> label, command |-> command,
     channel |-> channel, tool_session_id |-> tool_session_id]

LastSession(command, label, channel, tool_session_id) ==
    [command |-> command, label |-> label, channel |-> channel,
     tool_session_id |-> tool_session_id]

EmptyMap == [x \in {} |-> None]

MapInsert(m, k, v) == [x \in DOMAIN m \cup {k} |-> IF x = k THEN v ELSE m[x]]

MapRemove(m, k) == [x \in DOMAIN m \ {k} |-> m[x]]

\* Vec::retain(|s| s.id != id)
RECURSIVE Retain(_, _)
Retain(list, id) ==
    IF list = <<>> THEN <<>>
    ELSE IF Head(list).id = id THEN Retain(Tail(list), id)
         ELSE <<Head(list)>> \o Retain(Tail(list), id)

\* iter_mut().find(|s| s.id == id): the index of the first match, 0 if none
FindIndex(list, id) ==
    IF \E i \in 1..Len(list) : list[i].id = id
    THEN CHOOSE i \in 1..Len(list) :
            list[i].id = id /\ \A j \in 1..(i - 1) : list[j].id # id
    ELSE 0

\* how many entries of a saved list carry the id
CountIn(saved, id) == Cardinality({i \in 1..Len(saved) : saved[i].id = id})

\* what a command hands back: its result, and for the commands whose effect is
\* stated on the state they leave (spawn, setup, kill, rename) the id they were
\* about; rep says that this kill repeats the call before it
Ret(op, id, res, arg) ==
    [op |-> op, id |-> id, res |-> res, arg |-> arg,
     rep |-> (op = "kill" /\ ret.op = op /\ ret.id = id)]

-----------------------------------------------------------------------------
(* lib.rs run(): the state of a first start, and of every later start *)

NewReader(sid) ==
    [sid |-> sid, done |-> FALSE, reads |-> 0, last |-> "none", events |-> <<>>]

\* the threads other than the main thread that call commands
Callers == {1, 2}

NoCall == [pc |-> "idle", id |-> None, label |-> None, found |-> FALSE]

NoRpc == [pc |-> "idle"]

NoThread == [pc |-> "idle", op |-> "none", id |-> None, held |-> {}, step |-> 0]

NoRestart == [pc |-> "idle"]

NoServer == [pc |-> "idle"]

NoConn == [pc |-> "idle"]

\* config::save_state: the file is rewritten when it can be written; a failed
\* write (its result is dropped with `let _`) leaves the file as it was
SaveState(d, saved, last) ==
    IF d.writable THEN [d EXCEPT !.saved_sessions = saved, !.last_sessions = last] ELSE d

NoEval == [f |-> "none"]

NewChild ==
    [state |-> "running", pid_gt1 |-> FALSE, signalled |-> FALSE, waiter |-> "none",
     polls |-> 0, forced |-> FALSE]

\* PtyManager::new, load_state on a first start; no call made yet
InitPty ==
    /\ sessions = EmptyMap
    /\ saved_sessions = <<>>
    /\ last_sessions = EmptyMap
    /\ pending = <<>>
    /\ ptys = 0
    /\ readers = EmptyMap
    /\ children = EmptyMap
    /\ ret = [op |-> "none", id |-> None, res |-> "Ok", arg |-> None, rep |-> FALSE]
    /\ hist = [id \in Ids |-> "never"]
    /\ calls = [c \in Callers |-> NoCall]
    /\ disk = [saved_sessions |-> <<>>, last_sessions |-> EmptyMap, writable |-> TRUE]
    /\ thr = [t \in Callers |-> NoThread]

\* nothing of the daemon client and of the Push Event Server is running
InitIdle ==
    /\ restart = NoRestart
    /\ hooksrv = NoServer
    /\ conn = NoConn

Init ==
    /\ InitPty
    /\ InitIdle
    /\ rpc = NoRpc
    /\ eval = NoEval

\* The application ends and starts again: the live table is new and empty, the
\* threads and children of the old process are gone, and load_state reads the
\* saved and last sessions from the state file.
Restart ==
    /\ sessions # EmptyMap \/ pending # <<>> \/ readers # EmptyMap
    /\ sessions' = EmptyMap
    /\ pending' = <<>>
    /\ readers' = EmptyMap
    /\ children' = EmptyMap
    /\ ret' = [op |-> "none", id |-> None, res |-> "Ok", arg |-> None, rep |-> FALSE]
    /\ hist' = [id \in Ids |-> "never"]
    /\ saved_sessions' = disk.saved_sessions
    /\ last_sessions' = disk.last_sessions
    /\ UNCHANGED ptys
    /\ UNCHANGED <<calls, rpc, eval>>
    /\ UNCHANGED <<disk, thr, restart, hooksrv, conn>>

-----------------------------------------------------------------------------
(* spawn_session: pty_manager.rs 34-180 *)

\* lines 46-112: a failure at any of these steps returns before anything is
\* started or stored
SpawnFailures ==
    { "Failed to open PTY", "Cannot find touchgrass binary (tg)",
      "Failed to spawn command", "Failed to take writer", "Failed to clone reader" }

\* (a variant that stores the session before the reader is cloned)
SpawnFailAfterInsert(msg) ==
    /\ pending = <<>>
    /\ ret' = Ret("spawn", None, msg, None)
    /\ sessions' = IF msg = "Failed to clone reader"
                   THEN MapInsert(sessions, UuidOf(ptys + 1),
                                  [info |-> SessionInfo(UuidOf(ptys + 1), "p1", "A", "claude",
                                                        None, None),
                                   rid |-> ptys + 1])
                   ELSE sessions
    /\ UNCHANGED <<saved_sessions, last_sessions, pending, ptys, readers, children, hist>>
    /\ UNCHANGED <<calls, rpc, eval>>
    /\ UNCHANGED <<disk, thr, restart, hooksrv, conn>>

SpawnFail(msg) ==
    /\ pending = <<>>
    /\ ret' = Ret("spawn", None, msg, None)
    /\ UNCHANGED <<sessions, saved_sessions, last_sessions, pending, ptys,
                   readers, children, hist>>
    /\ UNCHANGED <<calls, rpc, eval>>
    /\ UNCHANGED <<disk, thr, restart, hooksrv, conn>>

\* lines 44-138: the uuid is drawn, the pty opened, the child spawned and the
\* reader thread started
SpawnBegin(req) ==
    /\ pending = <<>>
    /\ ptys < MaxSessions
    /\ LET rid == ptys + 1
           id == UuidOf(rid)
       IN /\ ptys' = rid
          /\ readers' = MapInsert(readers, rid, NewReader(id))
          /\ children' = MapInsert(children, rid, NewChild)
          /\ pending' = <<[id |-> id, req |-> req, rid |-> rid]>>
    /\ UNCHANGED <<sessions, saved_sessions, last_sessions, ret, hist>>
    /\ UNCHANGED <<calls, rpc, eval>>
    /\ UNCHANGED <<disk, thr, restart, hooksrv, conn>>

\* line 158: HashMap::insert replaces an entry with the same key
InsertLive(tbl, id, session) == MapInsert(tbl, id, session)

\* (a variant that forgets the push)
UpsertSavedForgotten(saved, info) == Retain(saved, info.id)

\* lines 164-165
UpsertSaved(saved, info) == Append(Retain(saved, info.id), info)

\* (a variant that keeps the entry a project already has)
UpsertLastKeepsFirst(last, info) ==
    IF info.project_id \in DOMAIN last THEN last
    ELSE MapInsert(last, info.project_id,
                   LastSession(info.command, info.label, info.channel, None))

\* lines 167-175
UpsertLast(last, info) ==
    MapInsert(last, info.project_id,
              LastSession(info.command, info.label, info.channel, None))

\* lines 140-179
SpawnRegister ==
    /\ pending # <<>>
    /\ LET call == pending[1]
           info == SessionInfo(call.id, call.req.project_id, call.req.label,
                               call.req.command, call.req.channel, None)
       IN /\ sessions' = InsertLive(sessions, info.id, [info |-> info, rid |-> call.rid])
          /\ saved_sessions' = UpsertSaved(saved_sessions, info)
          /\ last_sessions' = UpsertLast(last_sessions, info)
          /\ ret' = Ret("spawn", info.id, "Ok", None)
          /\ hist' = [hist EXCEPT ![info.id] = "spawned"]
    /\ pending' = <<>>
    /\ UNCHANGED <<ptys, readers, children>>
    /\ UNCHANGED <<calls, rpc, eval>>
    /\ disk' = SaveState(disk, saved_sessions', last_sessions')
    /\ UNCHANGED <<thr, restart, hooksrv, conn>>

-----------------------------------------------------------------------------
(* spawn_setup_pty: setup.rs 80-172 *)

SetupFailures ==
    { "Failed to open PTY", "Failed to spawn command", "Failed to take writer",
      "Failed to clone reader" }

SpawnSetupPtyFail(msg) ==
    /\ pending = <<>>
    /\ ret' = Ret("setup", None, msg, None)
    /\ UNCHANGED <<sessions, saved_sessions, last_sessions, pending, ptys,
                   readers, children, hist>>
    /\ UNCHANGED <<calls, rpc, eval>>
    /\ UNCHANGED <<disk, thr, restart, hooksrv, conn>>

\* pty_id is the caller's: an id of its own making, or one that is live already
SetupPtyIds == DOMAIN sessions \cup {UuidOf(ptys + 1)}

SpawnSetupPty(pty_id) ==
    /\ pending = <<>>
    /\ ptys < MaxSessions
    /\ LET rid == ptys + 1
           info == SessionInfo(pty_id, "__setup__", "Setup", "install", None, None)
       IN /\ ptys' = rid
          /\ readers' = MapInsert(readers, rid, NewReader(pty_id))
          /\ children' = MapInsert(children, rid, NewChild)
          /\ sessions' = InsertLive(sessions, pty_id, [info |-> info, rid |-> rid])
    /\ ret' = Ret("setup", pty_id, "Ok", None)
    /\ hist' = [hist EXCEPT ![pty_id] = "spawned"]
    /\ UNCHANGED <<saved_sessions, last_sessions, pending>>
    /\ UNCHANGED <<calls, rpc, eval>>
    /\ UNCHANGED <<disk, thr, restart, hooksrv, conn>>

-----------------------------------------------------------------------------
(* write_to_session: pty_manager.rs 182-202; resize_session: 204-226 *)

\* what write_all and flush can do on a pty that is there
WriteOutcomes == {"Ok", "Write error", "Flush error"}

\* (a variant that reports every failure as a missing session)
WriteResultLumped(tbl, id, io) ==
    IF id \in DOMAIN tbl /\ io = "Ok" THEN io ELSE "Session not found"

WriteResult(tbl, id, io) == IF id \in DOMAIN tbl THEN io ELSE "Session not found"

WriteToSession(id) ==
    /\ pending = <<>>
    /\ \E io \in WriteOutcomes : ret' = Ret("write", None, WriteResult(sessions, id, io), None)
    /\ UNCHANGED <<sessions, saved_sessions, last_sessions, pending, ptys,
                   readers, children, hist>>
    /\ UNCHANGED <<calls, rpc, eval>>
    /\ UNCHANGED <<disk, thr, restart, hooksrv, conn>>

ResizeOutcomes == {"Ok", "Resize error"}

\* (a variant that ignores a missing session)
ResizeResultSilent(tbl, id, io) == IF id \in DOMAIN tbl THEN io ELSE "Ok"

ResizeResult(tbl, id, io) == IF id \in DOMAIN tbl THEN io ELSE "Session not found"

\* the terminal size is the pty's, not the program's
ResizeSession(id) ==
    /\ pending = <<>>
    /\ \E io \in ResizeOutcomes : ret' = Ret("resize", None, ResizeResult(sessions, id, io), None)
    /\ UNCHANGED <<sessions, saved_sessions, last_sessions, pending, ptys,
                   readers, children, hist>>
    /\ UNCHANGED <<calls, rpc, eval>>
    /\ UNCHANGED <<disk, thr, restart, hooksrv, conn>>

-----------------------------------------------------------------------------
(* kill_session: pty_manager.rs 228-270 *)

\* (a variant that keeps the session until its child has exited)
RemoveLiveWhenExited(tbl, id) ==
    IF id \in DOMAIN tbl /\ children[tbl[id].rid].state = "running"
    THEN tbl ELSE MapRemove(tbl, id)

\* line 235
RemoveLive(tbl, id) == MapRemove(tbl, id)

\* (a variant that cleans the saved list only for a live session)
KillSavedIfFound(saved, id, found) == IF found THEN Retain(saved, id) ELSE saved

\* line 265: outside the `if let`, so whether or not the session was live
KillSaved(saved, id, found) == Retain(saved, id)

\* lines 235-259: SIGTERM to the process group when the child has a pid > 1,
\* then the exit-poll thread takes the session
StartWaiter(procs, rid, pidOk) ==
    [procs EXCEPT ![rid] = [@ EXCEPT !.pid_gt1 = pidOk, !.signalled = pidOk,
                                     !.waiter = "polling", !.polls = 0]]

\* (a variant that reports a missing session)
KillResultStrict(found) == IF found THEN "Ok" ELSE "Session not found"

\* line 269
KillResult(found) == "Ok"

KillSession(id) ==
    /\ pending = <<>>
    /\ LET found == id \in DOMAIN sessions
       IN /\ sessions' = RemoveLive(sessions, id)
          /\ IF found
             THEN \E pidOk \in BOOLEAN :
                     children' = StartWaiter(children, sessions[id].rid, pidOk)
             ELSE children' = children
          /\ saved_sessions' = KillSaved(saved_sessions, id, found)
          /\ ret' = Ret("kill", id, KillResult(found), None)
          /\ hist' = [hist EXCEPT ![id] = IF @ = "spawned" THEN "killed" ELSE @]
    /\ UNCHANGED <<last_sessions, pending, ptys, readers>>
    /\ UNCHANGED <<calls, rpc, eval>>
    /\ disk' = SaveState(disk, saved_sessions', last_sessions')
    /\ UNCHANGED <<thr, restart, hooksrv, conn>>

-----------------------------------------------------------------------------
(* close_saved_session 300-310, rename_session 312-333,                     *)
(* set_tool_session_id 335-353, and the reads 272-298, 355-363              *)

CloseSavedSession(id) ==
    /\ pending = <<>>
    /\ saved_sessions' = Retain(saved_sessions, id)
    /\ ret' = Ret("close", None, "Ok", None)
    /\ UNCHANGED <<sessions, last_sessions, pending, ptys, readers, children, hist>>
    /\ UNCHANGED <<calls, rpc, eval>>
    /\ disk' = SaveState(disk, saved_sessions', last_sessions')
    /\ UNCHANGED <<thr, restart, hooksrv, conn>>

\* lines 320-323
RenameLive(tbl, id, label) ==
    IF id \in DOMAIN tbl THEN [tbl EXCEPT ![id].info.label = label] ELSE tbl

\* (a variant that renames the live session only)
RenameSavedForgotten(saved, id, label) == saved

\* lines 327-330
RenameSaved(saved, id, label) ==
    LET i == FindIndex(saved, id)
    IN IF i = 0 THEN saved ELSE [saved EXCEPT ![i].label = label]

\* line 332
RenameResult(tbl, saved, id) == "Ok"

RenameSession(id, label) ==
    /\ pending = <<>>
    /\ sessions' = RenameLive(sessions, id, label)
    /\ saved_sessions' = RenameSaved(saved_sessions, id, label)
    /\ ret' = Ret("rename", id, RenameResult(sessions, saved_sessions, id), label)
    /\ UNCHANGED <<last_sessions, pending, ptys, readers, children, hist>>
    /\ UNCHANGED <<calls, rpc, eval>>
    /\ disk' = SaveState(disk, saved_sessions', last_sessions')
    /\ UNCHANGED <<thr, restart, hooksrv, conn>>

\* (a variant that pushes a tagged copy instead of tagging in place)
ToolSavedCopy(saved, id, t) ==
    LET i == FindIndex(saved, id)
    IN IF i = 0 THEN saved ELSE Append(saved, [saved[i] EXCEPT !.tool_session_id = t])

\* lines 343-344
ToolSaved(saved, id, t) ==
    LET i == FindIndex(saved, id)
    IN IF i = 0 THEN saved ELSE [saved EXCEPT ![i].tool_session_id = t]

\* lines 345-349
ToolLast(last, saved, id, t) ==
    LET i == FindIndex(saved, id)
    IN IF i # 0 /\ saved[i].project_id \in DOMAIN last
       THEN [last EXCEPT ![saved[i].project_id].tool_session_id = t]
       ELSE last

SetToolSessionId(id, t) ==
    /\ pending = <<>>
    /\ saved_sessions' = ToolSaved(saved_sessions, id, t)
    /\ last_sessions' = ToolLast(last_sessions, saved_sessions, id, t)
    /\ ret' = Ret("set_tool", None, "Ok", None)
    /\ UNCHANGED <<sessions, pending, ptys, readers, children, hist>>
    /\ UNCHANGED <<calls, rpc, eval>>
    /\ disk' = IF FindIndex(saved_sessions, id) # 0
               THEN SaveState(disk, saved_sessions', last_sessions') ELSE disk
    /\ UNCHANGED <<thr, restart, hooksrv, conn>>

\* list_sessions
ListSessions(project_id) ==
    {sessions[id].info : id \in {k \in DOMAIN sessions : sessions[k].info.project_id = project_id}}

\* get_saved_sessions
GetSavedSessions(project_id) ==
    SelectSeq(saved_sessions, LAMBDA s : s.project_id = project_id)

\* get_last_session
GetLastSession(project_id) ==
    IF project_id \in DOMAIN last_sessions THEN last_sessions[project_id] ELSE None

-----------------------------------------------------------------------------
(* rename_session called from two threads: pty_manager.rs 312-333.  The call *)
(* holds the PtyManager lock for lines 320-324 and the AppState lock for     *)
(* lines 327-332, one after the other and never both: another call can run   *)
(* between the two.                                                          *)

ConcurrentLabels == {"X", "Y"}

\* lines 320-324: lock, rename the live session, drop the lock (found: the
\* `if let` at line 321 matched)
RenameLockLive(c, id, label) ==
    /\ calls[c].pc # "live_done"
    /\ sessions' = RenameLive(sessions, id, label)
    /\ calls' = [calls EXCEPT ![c] = [pc |-> "live_done", id |-> id, label |-> label,
                                      found |-> id \in DOMAIN sessions]]
    /\ UNCHANGED <<saved_sessions, last_sessions, pending, ptys, readers, children,
                   ret, hist, rpc, eval>>
    /\ UNCHANGED <<disk, thr, restart, hooksrv, conn>>

\* lines 326-332: lock, rename the saved session, save, return
RenameLockSaved(c) ==
    /\ calls[c].pc = "live_done"
    /\ saved_sessions' = RenameSaved(saved_sessions, calls[c].id, calls[c].label)
    /\ calls' = [calls EXCEPT ![c].pc = "done"]
    /\ UNCHANGED <<sessions, last_sessions, pending, ptys, readers, children,
                   ret, hist, rpc, eval>>
    /\ disk' = SaveState(disk, saved_sessions', last_sessions')
    /\ UNCHANGED <<thr, restart, hooksrv, conn>>

-----------------------------------------------------------------------------
(* The reader thread of a pty: pty_manager.rs 118-138, setup.rs 127-145 *)

Event(kind, data) == [kind |-> kind, data |-> data]

\* app.emit: the event is appended to what this reader has put on the UI bus
Emit(r, kind, data) == [r EXCEPT !.events = Append(@, Event(kind, data))]

\* Ok(n), n > 0: the n-th chunk the pty delivers
ReadData(r) == [Emit(r, "output", r.reads + 1) EXCEPT !.reads = @ + 1, !.last = "data"]

\* (a variant without the break)
ReadEndNoBreak(r, how) == [Emit(r, "exit", 0) EXCEPT !.last = how]

\* Ok(0) and Err(_): emit pty-exit, break
ReadEnd(r, how) == [Emit(r, "exit", 0) EXCEPT !.done = TRUE, !.last = how]

ReaderRead(rid) ==
    /\ rid \in DOMAIN readers
    /\ ~readers[rid].done
    /\ readers[rid].reads < MaxReads
    /\ readers' = [readers EXCEPT ![rid] = ReadData(@)]
    /\ UNCHANGED <<sessions, saved_sessions, last_sessions, pending, ptys,
                   children, ret, hist>>
    /\ UNCHANGED <<calls, rpc, eval>>
    /\ UNCHANGED <<disk, thr, restart, hooksrv, conn>>

\* (a variant whose reader thread takes its session out of the live table)
LiveAfterReaderEndRemoved(tbl, id) == MapRemove(tbl, id)

\* lines 118-138: the thread owns the reader, the AppHandle and the id, and no
\* handle to the PtyManager: it leaves the live table as it is
LiveAfterReaderEnd(tbl, id) == tbl

ReaderEof(rid) ==
    /\ rid \in DOMAIN readers
    /\ ~readers[rid].done
    /\ readers' = [readers EXCEPT ![rid] = ReadEnd(@, "eof")]
    /\ sessions' = LiveAfterReaderEnd(sessions, readers[rid].sid)
    /\ UNCHANGED <<saved_sessions, last_sessions, pending, ptys, children, ret, hist>>
    /\ UNCHANGED <<calls, rpc, eval>>
    /\ UNCHANGED <<disk, thr, restart, hooksrv, conn>>

ReaderErr(rid) ==
    /\ rid \in DOMAIN readers
    /\ ~readers[rid].done
    /\ readers' = [readers EXCEPT ![rid] = ReadEnd(@, "err")]
    /\ sessions' = LiveAfterReaderEnd(sessions, readers[rid].sid)
    /\ UNCHANGED <<saved_sessions, last_sessions, pending, ptys, children, ret, hist>>
    /\ UNCHANGED <<calls, rpc, eval>>
    /\ UNCHANGED <<disk, thr, restart, hooksrv, conn>>

-----------------------------------------------------------------------------
(* The child process and the exit-poll thread: pty_manager.rs 247-258 *)

\* the child exits by itself, or on the SIGTERM
ChildExit(rid) ==
    /\ rid \in DOMAIN children
    /\ children[rid].state = "running"
    /\ children' = [children EXCEPT ![rid].state = "exited"]
    /\ UNCHANGED <<sessions, saved_sessions, last_sessions, pending, ptys,
                   readers, ret, hist>>
    /\ UNCHANGED <<calls, rpc, eval>>
    /\ UNCHANGED <<disk, thr, restart, hooksrv, conn>>

\* (a variant that polls on after the child has exited)
PollIgnoresExit(c) == [c EXCEPT !.polls = @ + 1]

\* lines 249-255: sleep, try_wait, return when the child has exited (the loop
\* counter ends with the thread)
Poll(c) ==
    IF c.state = "running"
    THEN [c EXCEPT !.polls = @ + 1]
    ELSE [c EXCEPT !.polls = 0, !.waiter = "done"]

WaiterPoll(rid) ==
    /\ rid \in DOMAIN children
    /\ children[rid].waiter = "polling"
    /\ children[rid].polls < MaxPolls
    /\ children' = [children EXCEPT ![rid] = Poll(@)]
    /\ UNCHANGED <<sessions, saved_sessions, last_sessions, pending, ptys,
                   readers, ret, hist>>
    /\ UNCHANGED <<calls, rpc, eval>>
    /\ UNCHANGED <<disk, thr, restart, hooksrv, conn>>

\* line 257: child.kill()
ForceKill(c) ==
    [c EXCEPT !.state = IF @ = "running" THEN "killed" ELSE @, !.polls = 0,
              !.waiter = "done", !.forced = TRUE]

WaiterForceKill(rid) ==
    /\ rid \in DOMAIN children
    /\ children[rid].waiter = "polling"
    /\ children[rid].polls = MaxPolls
    /\ children' = [children EXCEPT ![rid] = ForceKill(@)]
    /\ UNCHANGED <<sessions, saved_sessions, last_sessions, pending, ptys,
                   readers, ret, hist>>
    /\ UNCHANGED <<calls, rpc, eval>>
    /\ UNCHANGED <<disk, thr, restart, hooksrv, conn>>

-----------------------------------------------------------------------------
(* Strings of daemon.rs.  A string is a sequence of bytes; a byte is written *)
(* as its character, with "CR", "LF", "SP", "TAB" for the white space, "BQ"  *)
(* for the backquote and "0xC3", "0xA9", "0xFF" for bytes above 127.  Offsets *)
(* are the code's: 0-based.                                                  *)

\* how many chunks a chunked body has
MaxChunks == 2

CRLF == <<"CR", "LF">>

\* char::is_whitespace, for the bytes of the model
IsWhitespace(b) == b \in {"CR", "LF", "SP", "TAB"}

\* str::trim_start
TrimStart(s) ==
    LET keep == {i \in 1..Len(s) : ~IsWhitespace(s[i])}
    IN IF keep = {} THEN <<>>
       ELSE SubSeq(s, CHOOSE i \in keep : \A j \in keep : i <= j, Len(s))

\* str::trim
Trim(s) ==
    LET keep == {i \in 1..Len(s) : ~IsWhitespace(s[i])}
    IN IF keep = {} THEN <<>>
       ELSE SubSeq(s, CHOOSE i \in keep : \A j \in keep : i <= j,
                      CHOOSE i \in keep : \A j \in keep : i >= j)

\* str::find(pat): <<>> is None, <<i>> is Some(i)
Find(s, pat) ==
    LET at == {i \in 0..Len(s) : i + Len(pat) <= Len(s)
                                  /\ SubSeq(s, i + 1, i + Len(pat)) = pat}
    IN IF at = {} THEN <<>> ELSE <<CHOOSE i \in at : \A j \in at : i <= j>>

\* the value of a hexadecimal digit, 16 for any other byte
HexDigit(b) ==
    CASE b = "0" -> 0 [] b = "1" -> 1 [] b = "2" -> 2 [] b = "3" -> 3 [] b = "4" -> 4
      [] b = "5" -> 5 [] b = "6" -> 6 [] b = "7" -> 7 [] b = "8" -> 8 [] b = "9" -> 9
      [] b \in {"a", "A"} -> 10 [] b \in {"b", "B"} -> 11 [] b \in {"c", "C"} -> 12
      [] b \in {"d", "D"} -> 13 [] b \in {"e", "E"} -> 14 [] b \in {"f", "F"} -> 15
      [] OTHER -> 16

RECURSIVE HexValue(_)
HexValue(digits) ==
    IF digits = <<>> THEN 0
    ELSE 16 * HexValue(SubSeq(digits, 1, Len(digits) - 1)) + HexDigit(digits[Len(digits)])

\* usize::from_str_radix(s, 16): <<>> is Err, <<n>> is Ok(n); one leading '+'
\* is accepted, an empty digit string is not
FromStrRadix16(s) ==
    LET digits == IF s # <<>> /\ s[1] = "+" THEN Tail(s) ELSE s
    IN IF digits = <<>> \/ \E i \in 1..Len(digits) : HexDigit(digits[i]) = 16
       THEN <<>>
       ELSE <<HexValue(digits)>>

Ok(v) == [kind |-> "Ok", val |-> v]

Err(msg) == [kind |-> "Err", val |-> msg]

\* the call does not return: a slice index out of range
Panic == [kind |-> "Panic", val |-> <<"byte index out of bounds">>]

-----------------------------------------------------------------------------
(* decode_chunked: daemon.rs 151-187 *)

\* (a variant that does not stop at a zero-size chunk)
IsLastChunkNever(chunk_size) == FALSE

\* line 170
IsLastChunk(chunk_size) == chunk_size = 0

\* one turn of the loop, and the turns after it
RECURSIVE DecodeLoop(_, _)
DecodeLoop(result, body) ==
    LET remaining == TrimStart(body)
        crlf == Find(remaining, CRLF)
        size_end == IF crlf = <<>> THEN Len(remaining) ELSE crlf[1]
        size_str == SubSeq(remaining, 1, size_end)
        parsed == FromStrRadix16(Trim(size_str))
        chunk_size == parsed[1]
        data_start == size_end + 2
    IN IF remaining = <<>> THEN Ok(result)
       ELSE IF parsed = <<>> THEN Err(<<"Invalid chunk size: '">> \o size_str \o <<"'">>)
       ELSE IF IsLastChunk(chunk_size) THEN Ok(result)
       ELSE IF data_start + chunk_size > Len(remaining)
            THEN IF data_start > Len(remaining)
                 THEN Panic
                 ELSE Ok(result \o SubSeq(remaining, data_start + 1, Len(remaining)))
            ELSE DecodeLoop(result \o SubSeq(remaining, data_start + 1, data_start + chunk_size),
                            SubSeq(remaining, data_start + chunk_size + 1, Len(remaining)))

decode_chunked(body) == DecodeLoop(<<>>, body)

\* What the daemon can send as a chunked body: chunks of a size line and that
\* many bytes, a zero-size chunk, and whatever follows it.
Chunk(size_str, data) == [size_str |-> size_str, data |-> data]

Chunks ==
    { Chunk(<<"4">>, <<"W", "i", "k", "i">>),
      Chunk(<<"5">>, <<"p", "e", "d", "i", "a">>),
      Chunk(<<"2">>, <<"SP", "a">>),
      Chunk(<<"3">>, <<"0", "CR", "LF">>),
      Chunk(<<"A">>, <<"0", "1", "2", "3", "4", "5", "6", "7", "8", "9">>),
      Chunk(<<"1", "0">>, <<"a", "b", "c", "d", "e", "f", "a", "b", "c", "d", "e", "f",
                            "a", "b", "c", "d">>) }

ChunkLists == UNION {[1..n -> Chunks] : n \in 0..MaxChunks}

AfterLast == { <<>>, CRLF, CRLF \o <<"4">> \o CRLF \o <<"W", "i", "k", "i">> \o CRLF }

RECURSIVE Encode(_)
Encode(chunks) ==
    IF chunks = <<>> THEN <<>>
    ELSE Head(chunks).size_str \o CRLF \o Head(chunks).data \o CRLF \o Encode(Tail(chunks))

RECURSIVE Payload(_)
Payload(chunks) ==
    IF chunks = <<>> THEN <<>> ELSE Head(chunks).data \o Payload(Tail(chunks))

ChunkedBody(chunks, after) == Encode(chunks) \o <<"0">> \o CRLF \o after

ChunkedArg(chunks, after, cut) ==
    [f |-> "decode_chunked", chunks |-> chunks, after |-> after, cut |-> cut,
     arg |-> IF cut = 0 THEN ChunkedBody(chunks, after)
             ELSE SubSeq(ChunkedBody(chunks, after), 1, cut),
     done |-> FALSE, out |-> Ok(<<>>)]

\* the complete bodies (cut = 0), and the bodies cut off after 1, 2, ... bytes,
\* up to the middle of the zero-size chunk's line
ChunkedArgs ==
    UNION { {ChunkedArg(chunks, after, 0) : after \in AfterLast}
            \cup {ChunkedArg(chunks, <<>>, cut) : cut \in 1..(Len(Encode(chunks)) + 2)} :
              chunks \in ChunkLists }

InitChunked ==
    /\ InitPty
    /\ InitIdle
    /\ rpc = NoRpc
    /\ eval \in ChunkedArgs

DecodeChunkedCall ==
    /\ eval.f = "decode_chunked"
    /\ ~eval.done
    /\ eval' = [eval EXCEPT !.done = TRUE, !.out = decode_chunked(eval.arg)]
    /\ UNCHANGED <<sessions, saved_sessions, last_sessions, pending, ptys, readers,
                   children, ret, hist, calls, rpc>>
    /\ UNCHANGED <<disk, thr, restart, hooksrv, conn>>

-----------------------------------------------------------------------------
(* http_request: daemon.rs 62-145, from the first read of the response on.   *)
(* A byte of the model stands for one byte or for a fixed run of bytes (a    *)
(* header name with its colon and space, a JSON string); lengths and offsets *)
(* count the model's bytes.                                                  *)

Digits == {"0", "1", "2", "3", "4", "5", "6", "7", "8", "9"}

RECURSIVE DecValue(_)
DecValue(digits) ==
    IF digits = <<>> THEN 0
    ELSE 10 * DecValue(SubSeq(digits, 1, Len(digits) - 1)) + HexDigit(digits[Len(digits)])

\* str::parse for usize: <<>> is Err, <<n>> is Ok(n); one leading '+' is
\* accepted (no number of the model is too large for usize)
ParseUnsigned(s) ==
    LET digits == IF s # <<>> /\ s[1] = "+" THEN Tail(s) ELSE s
    IN IF digits = <<>> \/ \E i \in 1..Len(digits) : digits[i] \notin Digits
       THEN <<>>
       ELSE <<DecValue(digits)>>

\* u16::MAX
U16Max == 65535

\* str::parse for u16
ParseU16(s) ==
    LET n == ParseUnsigned(s)
    IN IF n # <<>> /\ n[1] > U16Max THEN <<>> ELSE n

\* let mut buf = [0u8; 8192]
BufSize == 8192

\* Display of an unsigned integer
RECURSIVE ToDigits(_)
ToDigits(n) ==
    LET d == <<"0", "1", "2", "3", "4", "5", "6", "7", "8", "9">>[(n % 10) + 1]
    IN IF n < 10 THEN <<d>> ELSE ToDigits(n \div 10) \o <<d>>

\* str::split("\r\n")
RECURSIVE SplitCrlf(_)
SplitCrlf(s) ==
    LET at == Find(s, CRLF)
    IN IF at = <<>> THEN <<s>>
       ELSE <<SubSeq(s, 1, at[1])>> \o SplitCrlf(SubSeq(s, at[1] + 3, Len(s)))

\* line 147-149
find_header_end(data) == Find(data, CRLF \o CRLF)

\* lines 79-85: every line that starts with one of the two spellings assigns
\* content_length, also when its value does not parse
RECURSIVE ContentLengthOf(_, _)
ContentLengthOf(lines, content_length) ==
    IF lines = <<>> THEN content_length
    ELSE LET line == Head(lines)
         IN IF line # <<>> /\ line[1] \in {"Content-Length: ", "content-length: "}
            THEN ContentLengthOf(Tail(lines), ParseUnsigned(Trim(Tail(line))))
            ELSE ContentLengthOf(Tail(lines), content_length)

\* (a variant that waits for one byte more)
EnoughStrict(len, hdr_end, cl) == len > hdr_end + 4 + cl

\* lines 90-95
Enough(len, hdr_end, cl) == len >= hdr_end + 4 + cl

\* lines 70-96: Ok(n), the n bytes appended to the response
AfterRead(r, n) ==
    LET response == r.response \o SubSeq(r.wire, 1, n)
        pos == find_header_end(response)
        found == r.header_end = <<>> /\ pos # <<>>
        header_end == IF found THEN pos ELSE r.header_end
        content_length ==
            IF found
            THEN ContentLengthOf(SplitCrlf(SubSeq(response, 1, pos[1])), r.content_length)
            ELSE r.content_length
    IN [r EXCEPT !.wire = SubSeq(r.wire, n + 1, Len(r.wire)),
                 !.response = response,
                 !.header_end = header_end,
                 !.content_length = content_length,
                 !.pc = IF header_end # <<>> /\ content_length # <<>>
                           /\ Enough(Len(response), header_end[1], content_length[1])
                        THEN "parse" ELSE "reading"]

\* str::lines().next(): the text up to the first LF, without a CR before it;
\* <<>> is None, <<line>> is Some(line)
FirstLine(s) ==
    LET lf == Find(s, <<"LF">>)
        raw == IF lf = <<>> THEN s ELSE SubSeq(s, 1, lf[1])
    IN IF s = <<>> THEN <<>>
       ELSE IF raw # <<>> /\ raw[Len(raw)] = "CR"
            THEN <<SubSeq(raw, 1, Len(raw) - 1)>> ELSE <<raw>>

\* str::split_whitespace().nth(1): <<>> is None, <<field>> is Some(field)
SecondField(line) ==
    LET t == TrimStart(line)
        ws1 == {i \in 1..Len(t) : IsWhitespace(t[i])}
        end1 == IF ws1 = {} THEN Len(t) + 1 ELSE CHOOSE i \in ws1 : \A j \in ws1 : i <= j
        u == TrimStart(SubSeq(t, end1, Len(t)))
        ws2 == {i \in 1..Len(u) : IsWhitespace(u[i])}
        end2 == IF ws2 = {} THEN Len(u) + 1 ELSE CHOOSE i \in ws2 : \A j \in ws2 : i <= j
    IN IF u = <<>> THEN <<>> ELSE <<SubSeq(u, 1, end2 - 1)>>

\* the JSON texts of the model: a string is one byte of the model, written
\* with single quotes
JsonStrings == {"'error'", "'ok'", "'channel exists'"}

Unquote(b) ==
    CASE b = "'error'" -> "error" [] b = "'ok'" -> "ok"
      [] b = "'channel exists'" -> "channel exists" [] OTHER -> b

IsJsonScalar(t) ==
    \/ Len(t) = 1 /\ t[1] \in JsonStrings \cup {"true", "false", "null"}
    \/ t # <<>> /\ \A i \in 1..Len(t) : t[i] \in Digits

IsJsonObject(t) ==
    \/ t = <<"{", "}">>
    \/ /\ Len(t) >= 5
       /\ t[1] = "{" /\ t[2] \in JsonStrings /\ t[3] = ":" /\ t[Len(t)] = "}"
       /\ IsJsonScalar(SubSeq(t, 4, Len(t) - 1))

\* lines 136-140: serde_json::from_str, get("error"), as_str: <<>> when the
\* body is not JSON, is not an object, has no "error" or a non-string one
JsonErrorString(body) ==
    LET t == Trim(body)
    IN IF IsJsonObject(t) /\ Len(t) = 5 /\ t[2] = "'error'" /\ t[4] \in JsonStrings
       THEN <<Unquote(t[4])>> ELSE <<>>

\* (a variant that lets status 400 through)
IsErrorStatusAbove(status_code) == status_code > 400

\* line 134
IsErrorStatus(status_code) == status_code >= 400

\* lines 127-144
StatusResult(status_code, headers, body) ==
    LET decoded == IF Find(headers, <<"Transfer-Encoding: chunked">>) # <<>>
                   THEN decode_chunked(body) ELSE Ok(body)
        response_body == decoded.val
        err == JsonErrorString(response_body)
    IN IF decoded.kind # "Ok" THEN decoded
       ELSE IF IsErrorStatus(status_code)
            THEN IF err # <<>> THEN Err(err)
                 ELSE Err(<<"HTTP ">> \o ToDigits(status_code) \o <<": ">> \o response_body)
            ELSE Ok(response_body)

\* lines 106-144, on the bytes the loop has collected
HttpResult(response) ==
    LET sep == Find(response, CRLF \o CRLF)
        headers == SubSeq(response, 1, sep[1])
        body == SubSeq(response, sep[1] + 5, Len(response))
        status_line == FirstLine(headers)
        field == SecondField(status_line[1])
        status_code == ParseU16(field[1])
    IN IF \E i \in 1..Len(response) : response[i] = "0xFF"
       THEN Err(<<"Response is not valid UTF-8">>)
       ELSE IF sep = <<>>
       THEN Err(<<"Invalid HTTP response: no header/body separator">>)
       ELSE IF status_line = <<>>
       THEN Err(<<"Invalid HTTP response: no status line">>)
       ELSE IF field = <<>> \/ status_code = <<>>
       THEN Err(<<"Invalid HTTP response: cannot parse status code">>)
       ELSE StatusResult(status_code[1], headers, body)

\* What a peer can send.  A status line, with what the peer meant by it: wf
\* says that it is "HTTP/1.1", a three-digit code and a reason.
StatusLine(line, wf, code) == [line |-> line, wf |-> wf, code |-> code]

StatusLines ==
    { StatusLine(<<"HTTP/1.1", "SP", "2", "0", "0", "SP", "OK">>, TRUE, 200),
      StatusLine(<<"HTTP/1.1", "SP", "3", "9", "9", "SP", "OK">>, TRUE, 399),
      StatusLine(<<"HTTP/1.1", "SP", "4", "0", "0", "SP", "Bad">>, TRUE, 400),
      StatusLine(<<"HTTP/1.1", "SP", "4", "0", "4", "SP", "Bad">>, TRUE, 404),
      StatusLine(<<>>, FALSE, 0),
      StatusLine(<<"HTTP/1.1">>, FALSE, 0),
      StatusLine(<<"HTTP/1.1", "SP", "OK">>, FALSE, 0),
      StatusLine(<<"HTTP/1.1", "SP", "2", "0", "0", "OK">>, FALSE, 0),
      StatusLine(<<"HTTP/1.1", "SP", "7", "0", "0", "0", "0", "SP", "OK">>, FALSE, 0),
      StatusLine(<<"XYZ", "SP", "2", "0", "0", "SP", "OK">>, FALSE, 200),
      StatusLine(<<"HTTP/1.1", "SP", "7">>, FALSE, 7) }

\* a body, with the error string a JSON reader finds in it (<<>>: none)
Body(bytes, error) == [bytes |-> bytes, error |-> error]

Bodies ==
    { Body(<<"o", "k">>, <<>>),
      Body(<<"{", "'error'", ":", "'channel exists'", "}">>, <<"channel exists">>),
      Body(<<"{", "'error'", ":", "4", "2", "}">>, <<>>),
      Body(<<"{", "'ok'", ":", "true", "}", "LF">>, <<>>),
      Body(<<"'error'">>, <<>>),
      Body(<<"o", "0xFF">>, <<>>),
      Body(<<>>, <<>>) }

\* how the peer frames the body: by closing, by a Content-Length header in
\* one of three spellings, by a Content-Length smaller than what it sends, or
\* by chunks
Framings == {"none", "cl", "cl_lower", "cl_odd", "cl_short", "chunked"}

HeaderLines(framing, n) ==
    CASE framing = "none" -> <<>>
      [] framing = "cl" -> CRLF \o <<"Content-Type: json">> \o CRLF
                                \o <<"Content-Length: ">> \o ToDigits(n)
      [] framing = "cl_lower" -> CRLF \o <<"content-length: ">> \o ToDigits(n)
      [] framing = "cl_odd" -> CRLF \o <<"Content-length: ">> \o ToDigits(n)
      [] framing = "cl_short" -> CRLF \o <<"Content-Length: ">> \o ToDigits(n)
      [] framing = "chunked" -> CRLF \o <<"Transfer-Encoding: chunked">>

\* the body on the wire: in chunks, the first byte apart from the rest (the
\* sizes are below ten, written alike in decimal and in hex)
WireBody(framing, bytes) ==
    IF framing # "chunked" THEN bytes
    ELSE IF bytes = <<>> THEN ChunkedBody(<<>>, CRLF)
    ELSE ChunkedBody(<<Chunk(<<"1">>, <<bytes[1]>>)>>
                       \o (IF Len(bytes) = 1 THEN <<>>
                           ELSE <<Chunk(ToDigits(Len(bytes) - 1), Tail(bytes))>>),
                     CRLF)

Declared(framing, bytes) ==
    IF framing = "cl_short" /\ bytes # <<>> THEN Len(bytes) - 1 ELSE Len(bytes)

Head_(sl, framing, bytes) == sl.line \o HeaderLines(framing, Declared(framing, bytes))

RpcCall(sl, framing, sep, body, closes) ==
    [pc |-> "reading",
     sl |-> sl, framing |-> framing, sep |-> sep, body |-> body,
     head_len |-> Len(Head_(sl, framing, body.bytes)),
     declared |-> Declared(framing, body.bytes),
     sent |-> IF sep THEN Head_(sl, framing, body.bytes) \o CRLF \o CRLF
                             \o WireBody(framing, body.bytes)
              ELSE Head_(sl, framing, body.bytes) \o CRLF,
     wire |-> IF sep THEN Head_(sl, framing, body.bytes) \o CRLF \o CRLF
                             \o WireBody(framing, body.bytes)
              ELSE Head_(sl, framing, body.bytes) \o CRLF,
     closes |-> closes,
     response |-> <<>>, header_end |-> <<>>, content_length |-> <<>>,
     eof |-> FALSE, interrupts |-> 0,
     result |-> Ok(<<>>)]

RpcCalls ==
    { RpcCall(sl, framing, sep, body, closes) :
        sl \in StatusLines, framing \in Framings, sep \in BOOLEAN, body \in Bodies,
        closes \in BOOLEAN }

InitRpc ==
    /\ InitPty
    /\ InitIdle
    /\ rpc \in RpcCalls
    /\ eval = NoEval

\* line 70: read returns n bytes, as many as the peer has sent and the buffer
\* takes
RpcRead ==
    /\ rpc.pc = "reading"
    /\ \E n \in 1..(IF Len(rpc.wire) < BufSize THEN Len(rpc.wire) ELSE BufSize) :
          rpc' = AfterRead(rpc, n)
    /\ UNCHANGED <<sessions, saved_sessions, last_sessions, pending, ptys, readers,
                   children, ret, hist, calls, eval>>
    /\ UNCHANGED <<disk, thr, restart, hooksrv, conn>>

\* line 69: Ok(0), the peer has closed
RpcReadEof ==
    /\ rpc.pc = "reading"
    /\ rpc.wire = <<>>
    /\ rpc.closes
    /\ rpc' = [rpc EXCEPT !.pc = "parse", !.eof = TRUE]
    /\ UNCHANGED <<sessions, saved_sessions, last_sessions, pending, ptys, readers,
                   children, ret, hist, calls, eval>>
    /\ UNCHANGED <<disk, thr, restart, hooksrv, conn>>

\* lines 98-103: an error other than Interrupted
AfterError(r) ==
    IF r.response # <<>>
    THEN [r EXCEPT !.pc = "parse"]
    ELSE [r EXCEPT !.pc = "done", !.result = Err(<<"Failed to read response">>)]

RpcReadErr ==
    /\ rpc.pc = "reading"
    /\ rpc' = AfterError(rpc)
    /\ UNCHANGED <<sessions, saved_sessions, last_sessions, pending, ptys, readers,
                   children, ret, hist, calls, eval>>
    /\ UNCHANGED <<disk, thr, restart, hooksrv, conn>>

\* how many reads of one call are interrupted
MaxInterrupts == 1

\* (a variant where Interrupted is an error like the others)
AfterInterruptedFails(r) == [AfterError(r) EXCEPT !.interrupts = @ + 1]

\* line 97: Err(e) with e.kind() == Interrupted, `continue`: the loop reads
\* again; interrupts counts these reads and is no variable of the code
AfterInterrupted(r) == [r EXCEPT !.interrupts = @ + 1]

RpcReadInterrupted ==
    /\ rpc.pc = "reading"
    /\ rpc.interrupts < MaxInterrupts
    /\ rpc' = AfterInterrupted(rpc)
    /\ UNCHANGED <<sessions, saved_sessions, last_sessions, pending, ptys, readers,
                   children, ret, hist, calls, eval>>
    /\ UNCHANGED <<disk, thr, restart, hooksrv, conn>>

\* lines 106-144
RpcFinish ==
    /\ rpc.pc = "parse"
    /\ rpc' = [rpc EXCEPT !.pc = "done", !.result = HttpResult(rpc.response)]
    /\ UNCHANGED <<sessions, saved_sessions, last_sessions, pending, ptys, readers,
                   children, ret, hist, calls, eval>>
    /\ UNCHANGED <<disk, thr, restart, hooksrv, conn>>

-----------------------------------------------------------------------------
(* urlencoding: daemon.rs 648-662 *)

\* how long a string to encode is
MaxUrlLen == 2

\* the value of a byte of the model
ByteCode(b) ==
    CASE b = "A" -> 65 [] b = "F" -> 70 [] b = "Z" -> 90
      [] b = "a" -> 97 [] b = "b" -> 98 [] b = "c" -> 99 [] b = "z" -> 122
      [] b = "0" -> 48 [] b = "2" -> 50 [] b = "9" -> 57
      [] b = "-" -> 45 [] b = "_" -> 95 [] b = "." -> 46 [] b = "~" -> 126
      [] b = "LF" -> 10 [] b = "SP" -> 32 [] b = "%" -> 37 [] b = "/" -> 47
      [] b = ":" -> 58 [] b = "@" -> 64 [] b = "[" -> 91 [] b = "BQ" -> 96
      [] b = "{" -> 123 [] b = "0xC3" -> 195 [] b = "0xA9" -> 169 [] b = "0xFF" -> 255

\* letters, digits and marks, their neighbours in the byte order, white space,
\* '%' itself and bytes above 127
UrlBytes ==
    { "A", "F", "Z", "a", "b", "c", "z", "0", "2", "9", "-", "_", ".", "~",
      "LF", "SP", "%", "/", ":", "@", "[", "BQ", "{", "0xC3", "0xA9", "0xFF" }

\* (a variant with lower-case digits)
HexLower(n) ==
    <<"0", "1", "2", "3", "4", "5", "6", "7", "8", "9", "a", "b", "c", "d", "e", "f">>[n + 1]

\* {b:02X}, one digit
HexUpper(n) ==
    <<"0", "1", "2", "3", "4", "5", "6", "7", "8", "9", "A", "B", "C", "D", "E", "F">>[n + 1]

\* line 653
IsUnreserved(code) ==
    \/ code \in 65..90 \/ code \in 97..122 \/ code \in 48..57
    \/ code \in {45, 95, 46, 126}

\* lines 652-659
EncodeByte(b) ==
    IF IsUnreserved(ByteCode(b)) THEN <<b>>
    ELSE <<"%", HexUpper(ByteCode(b) \div 16), HexUpper(ByteCode(b) % 16)>>

RECURSIVE urlencoding(_)
urlencoding(s) == IF s = <<>> THEN <<>> ELSE EncodeByte(Head(s)) \o urlencoding(Tail(s))

UrlArgs ==
    UNION {[1..n -> UrlBytes] : n \in 0..MaxUrlLen} \cup {<<"a", "SP", "b", "/", "c">>}

InitUrl ==
    /\ InitPty
    /\ InitIdle
    /\ rpc = NoRpc
    /\ eval \in {[f |-> "urlencoding", arg |-> s, done |-> FALSE, out |-> <<>>] : s \in UrlArgs}

UrlencodingCall ==
    /\ eval.f = "urlencoding"
    /\ ~eval.done
    /\ eval' = [eval EXCEPT !.done = TRUE, !.out = urlencoding(eval.arg)]
    /\ UNCHANGED <<sessions, saved_sessions, last_sessions, pending, ptys, readers,
                   children, ret, hist, calls, rpc>>
    /\ UNCHANGED <<disk, thr, restart, hooksrv, conn>>

-----------------------------------------------------------------------------
(* The state file: config.rs 83-91 *)

OtherVarsDisk ==
    <<sessions, saved_sessions, last_sessions, pending, ptys, readers, children,
      ret, hist, calls, rpc, eval, thr, restart, hooksrv, conn>>

\* The state file stops being writable (its directory is read-only, the disk
\* is full): std::fs::write in save_state returns Err from now on.
FsFails ==
    /\ disk.writable
    /\ disk' = [disk EXCEPT !.writable = FALSE]
    /\ UNCHANGED OtherVarsDisk

FsRecovers ==
    /\ ~disk.writable
    /\ disk' = [disk EXCEPT !.writable = TRUE]
    /\ UNCHANGED OtherVarsDisk

-----------------------------------------------------------------------------
(* daemon_restart: daemon.rs 381-430 *)

\* line 390: how often the pid file is looked for
MaxStopPolls == 30

\* line 422: how often /health is asked
MaxHealthChecks == 50

OtherVarsRestart ==
    <<sessions, saved_sessions, last_sessions, pending, ptys, readers, children,
      ret, hist, calls, rpc, eval, disk, thr, hooksrv, conn>>

\* what find_tg_binary and find_tg_dev find: an installed binary, a dev
\* checkout, a dev checkout whose main.ts has no grandparent directory, nothing
Installs == {"bin", "dev", "dev_bad", "none"}

\* One call and what it meets: a home directory or none, a pid file of a
\* running daemon or none, an installation, a launch that works or fails.
DaemonRestartCall(home, pid_file, install, spawn_ok) ==
    [pc |-> "shutdown", home |-> home, pid_file |-> pid_file, install |-> install,
     spawn_ok |-> spawn_ok, shutdown |-> "none", polls |-> 0, started |-> FALSE,
     checks |-> 0, healthy |-> FALSE, result |-> Ok(<<>>)]

DaemonRestartCalls ==
    { DaemonRestartCall(home, pid_file, install, spawn_ok) :
        home \in BOOLEAN, pid_file \in BOOLEAN, install \in Installs,
        spawn_ok \in BOOLEAN }

InitDaemonRestart ==
    /\ InitPty
    /\ rpc = NoRpc
    /\ eval = NoEval
    /\ hooksrv = NoServer
    /\ conn = NoConn
    /\ restart \in DaemonRestartCalls

\* (a variant that gives up when /shutdown fails)
AfterShutdownChecked(r, res) ==
    IF res = "Err"
    THEN [r EXCEPT !.pc = "done", !.shutdown = res,
                   !.result = Err(<<"Failed to connect to daemon">>)]
    ELSE IF r.home
    THEN [r EXCEPT !.pc = "wait_stop", !.shutdown = res]
    ELSE [r EXCEPT !.pc = "done", !.shutdown = res,
                   !.result = Err(<<"Cannot determine home directory">>)]

\* lines 383-389: the result of /shutdown is dropped; then home_dir()
AfterShutdown(r, res) ==
    IF r.home
    THEN [r EXCEPT !.pc = "wait_stop", !.shutdown = res]
    ELSE [r EXCEPT !.pc = "done", !.shutdown = res,
                   !.result = Err(<<"Cannot determine home directory">>)]

DaemonRestartShutdown(res) ==
    /\ restart.pc = "shutdown"
    /\ restart' = AfterShutdown(restart, res)
    /\ UNCHANGED OtherVarsRestart

\* the daemon that is shutting down removes its pid file
PidFileRemoved ==
    /\ restart.pc = "wait_stop"
    /\ restart.pid_file
    /\ restart' = [restart EXCEPT !.pid_file = FALSE]
    /\ UNCHANGED OtherVarsRestart

\* lines 390-395: the file is there, sleep and look again
DaemonRestartWait ==
    /\ restart.pc = "wait_stop"
    /\ restart.polls < MaxStopPolls
    /\ restart.pid_file
    /\ restart' = [restart EXCEPT !.polls = @ + 1]
    /\ UNCHANGED OtherVarsRestart

\* lines 398-419: the loop is left, because the file is gone or after the last
\* look, and the daemon is launched
AfterLaunch(r) ==
    CASE r.install = "none" ->
           [r EXCEPT !.pc = "done",
                     !.result = Err(<<"Cannot find touchgrass binary. Install it or ensure 'touchgrass' is in PATH.">>)]
      [] r.install = "dev_bad" ->
           [r EXCEPT !.pc = "done", !.result = Err(<<"Invalid dev path">>)]
      [] r.install = "bin" /\ ~r.spawn_ok ->
           [r EXCEPT !.pc = "done", !.result = Err(<<"Failed to start daemon">>)]
      [] r.install = "dev" /\ ~r.spawn_ok ->
           [r EXCEPT !.pc = "done", !.result = Err(<<"Failed to start daemon (dev)">>)]
      [] OTHER ->
           [r EXCEPT !.pc = "health", !.started = TRUE]

DaemonRestartLaunch ==
    /\ restart.pc = "wait_stop"
    /\ ~restart.pid_file \/ restart.polls = MaxStopPolls
    /\ restart' = AfterLaunch(restart)
    /\ UNCHANGED OtherVarsRestart

\* lines 422-427: sleep, ask /health, return Ok when the request succeeds
AfterHealthCheck(r, res) ==
    IF res = "Ok"
    THEN [r EXCEPT !.checks = @ + 1, !.healthy = TRUE, !.pc = "done",
                   !.result = Ok(<<"ok">>)]
    ELSE [r EXCEPT !.checks = @ + 1]

DaemonRestartHealthCheck(res) ==
    /\ restart.pc = "health"
    /\ restart.checks < MaxHealthChecks
    /\ restart' = AfterHealthCheck(restart, res)
    /\ UNCHANGED OtherVarsRestart

\* line 429: the loop has run out
DaemonRestartTimeout ==
    /\ restart.pc = "health"
    /\ restart.checks = MaxHealthChecks
    /\ restart' = [restart EXCEPT !.pc = "done",
                       !.result = Err(<<"Daemon started but health check timed out">>)]
    /\ UNCHANGED OtherVarsRestart

-----------------------------------------------------------------------------
(* handle_connection: hook_server.rs 67-206 *)

\* line 68: the read timeout, in seconds
ReadTimeout == 5

OtherVarsConn ==
    <<sessions, saved_sessions, last_sessions, pending, ptys, readers, children,
      ret, hist, calls, rpc, eval, disk, thr, restart, hooksrv>>

\* The request lines of the model, as split_whitespace yields them: nothing, a
\* method alone, a method and a path.  A path is a sequence of model bytes.
Paths == { <<"/event">>, <<"/hook/", "s1">>, <<"/hook/">>, <<"/hook">>,
           <<"/other">>, <<"/event", "/">> }

RequestLines ==
    { <<>>, <<"POST">> } \cup { <<m, p>> : m \in {"POST", "GET"}, p \in Paths }

\* str::strip_prefix: <<>> is None, <<rest>> is Some(rest)
StripPrefix(s, prefix) ==
    IF Len(s) >= Len(prefix) /\ SubSeq(s, 1, Len(prefix)) = prefix
    THEN <<SubSeq(s, Len(prefix) + 1, Len(s))>> ELSE <<>>

\* The JSON texts of the model; a string is one model byte in single quotes.
HookStrings == {"'hook_event_name'", "'Stop'", "''", "'type'", "'linked'"}

HookBodies ==
    { <<"{", "'hook_event_name'", ":", "'Stop'", "}">>,
      <<"{", "'hook_event_name'", ":", "''", "}">>,
      <<"{", "'hook_event_name'", ":", "5", "}">>,
      <<"{", "'type'", ":", "'linked'", "}">>,
      <<"{", "}">>,
      <<"5">>,
      <<"{", "'type'">>,
      <<>> }

\* serde_json::from_slice succeeds
IsJson(t) ==
    \/ Len(t) = 1 /\ t[1] \in HookStrings \cup {"5", "null"}
    \/ t = <<"{", "}">>
    \/ /\ Len(t) = 5
       /\ t[1] = "{" /\ t[2] \in HookStrings /\ t[3] = ":" /\ t[5] = "}"
       /\ t[4] \in HookStrings \cup {"5", "null"}

\* lines 170-174: json.get(key).and_then(as_str).unwrap_or("")
GetStr(t, key) ==
    IF Len(t) = 5 /\ t[2] = key /\ t[4] \in HookStrings
    THEN CASE t[4] = "'Stop'" -> "Stop" [] t[4] = "'linked'" -> "linked"
           [] t[4] = "'type'" -> "type" [] t[4] = "'hook_event_name'" -> "hook_event_name"
           [] OTHER -> ""
    ELSE ""

\* The header block of a request: no Content-Length line, one that gives the
\* length of the body (in two spellings), one that gives less or more, one
\* whose value is no number.
HeaderKinds == {"none", "exact", "upper", "short", "long", "bad"}

\* lines 90-102 and 140-152: the value of the last content-length line, in any
\* case of letters; 0 without one or when it does not parse
ContentLength(hdr, body) ==
    CASE hdr \in {"exact", "upper"} -> Len(body)
      [] hdr = "short" -> IF body = <<>> THEN 0 ELSE Len(body) - 1
      [] hdr = "long" -> Len(body) + 1
      [] OTHER -> 0

\* What the peer does: it sends the request and waits for the answer ("none"),
\* or from one part of the request on it goes silent ("stall"), sends bytes
\* that never complete the part, each before the timeout runs out ("drip"),
\* closes its side ("close"), or sends bytes that are no UTF-8 ("garbage").
Stages == {"line", "headers", "body"}

Faults == {"stall", "drip", "close", "garbage"}

Peers ==
    { [stage |-> "line", fault |-> "none"] }
        \cup { [stage |-> s, fault |-> f] : s \in Stages, f \in Faults }

HookConn(line, hdr, body, peer) ==
    [pc |-> "line", line |-> line, hdr |-> hdr, sent |-> body, peer |-> peer,
     timer |-> 0, got |-> 0, route |-> "none", content_length |-> 0,
     body |-> <<>>, utf8 |-> TRUE, responses |-> <<>>, events |-> <<>>]

HookConns ==
    { HookConn(line, hdr, body, peer) :
        line \in RequestLines, hdr \in HeaderKinds, body \in HookBodies,
        peer \in Peers }

InitHook ==
    /\ InitPty
    /\ rpc = NoRpc
    /\ eval = NoEval
    /\ restart = NoRestart
    /\ hooksrv = NoServer
    /\ conn \in HookConns

\* the peer misbehaves in the part the handler is reading
FaultHere(c, f) == c.peer.stage = c.pc /\ c.peer.fault = f

\* lines 193-206: write_response; its result is dropped by every caller
Respond(c, status) ==
    [c EXCEPT !.pc = "done", !.responses = Append(@, status)]

\* lines 78-85 and 130-136: the route of a request line
AfterLine(c) ==
    LET parts == c.line
        id == IF Len(parts) >= 2 THEN StripPrefix(parts[2], <<"/hook/">>) ELSE <<>>
    IN IF Len(parts) < 2 \/ parts[1] # "POST"
       THEN Respond(c, 405)
       ELSE IF parts[2] = <<"/event">>
       THEN [c EXCEPT !.pc = "headers", !.route = "event", !.timer = 0]
       ELSE IF id # <<>> /\ id[1] # <<>>
       THEN [c EXCEPT !.pc = "headers", !.route = "hook", !.timer = 0]
       ELSE Respond(c, 404)

\* lines 74-76: read_line failed, return
AfterLineError(c) == [c EXCEPT !.pc = "done"]

\* lines 73-85: the request line arrives; or the peer has closed (Ok(0), an
\* empty line); or the line is no UTF-8 (Err)
HandlerReadLine ==
    /\ conn.pc = "line"
    /\ ~FaultHere(conn, "stall") /\ ~FaultHere(conn, "drip")
    /\ conn' = IF FaultHere(conn, "garbage") THEN AfterLineError(conn)
               ELSE IF FaultHere(conn, "close") THEN AfterLine([conn EXCEPT !.line = <<>>])
               ELSE AfterLine(conn)
    /\ UNCHANGED OtherVarsConn

\* lines 88-102 and 139-152: the header lines up to the empty one; a peer that
\* has closed or sends no UTF-8 ends the loop before any header is read
HandlerReadHeaders ==
    /\ conn.pc = "headers"
    /\ ~FaultHere(conn, "stall") /\ ~FaultHere(conn, "drip")
    /\ conn' = [conn EXCEPT
                  !.pc = "body", !.timer = 0,
                  !.content_length =
                      IF FaultHere(conn, "garbage") \/ FaultHere(conn, "close") THEN 0
                      ELSE ContentLength(conn.hdr, conn.sent)]
    /\ UNCHANGED OtherVarsConn

\* how many bytes of the body the peer has sent
Available(c) ==
    CASE FaultHere(c, "stall") -> 0
      [] FaultHere(c, "close") -> 0
      [] FaultHere(c, "drip") -> c.got
      [] OTHER -> Len(c.sent)

\* lines 104-108 and 155-159: read_exact of content_length bytes, none when it
\* is 0; UnexpectedEof when the peer has closed before
HandlerReadBody ==
    /\ conn.pc = "body"
    /\ \/ conn.content_length <= Available(conn)
       \/ FaultHere(conn, "close")
    /\ conn' = IF conn.content_length <= Available(conn)
               THEN [conn EXCEPT !.pc = "respond",
                                 !.body = SubSeq(conn.sent, 1, conn.content_length),
                                 !.utf8 = ~(FaultHere(conn, "garbage")
                                            /\ conn.content_length > 0)]
               ELSE Respond(conn, 400)
    /\ UNCHANGED OtherVarsConn

\* the handler is in a read and no byte is there for it
Waiting(c) ==
    \/ c.pc \in {"line", "headers"} /\ (FaultHere(c, "stall") \/ FaultHere(c, "drip"))
    \/ c.pc = "body" /\ c.content_length > Available(c) /\ ~FaultHere(c, "close")

\* the peer that drips has a byte left to send in this part: always in the
\* request line and in the headers, where it never sends the line's end
Dripping(c) ==
    /\ FaultHere(c, "drip")
    /\ c.pc = "body" => c.got < Len(c.sent)

\* a second passes in a read; the dripping peer does not let the last one pass
Tick ==
    /\ Waiting(conn)
    /\ conn.timer < (IF Dripping(conn) THEN ReadTimeout - 1 ELSE ReadTimeout)
    /\ conn' = [conn EXCEPT !.timer = @ + 1]
    /\ UNCHANGED OtherVarsConn

\* the dripping peer sends a byte: the read that waited returns it, and the
\* next read of read_line or read_exact starts with a new timeout
PeerDrip ==
    /\ Waiting(conn)
    /\ Dripping(conn)
    /\ conn.timer > 0
    /\ conn' = [conn EXCEPT !.timer = 0,
                            !.got = IF conn.pc = "body" THEN @ + 1 ELSE @]
    /\ UNCHANGED OtherVarsConn

\* line 68: a read has waited for ReadTimeout and fails.  In the request line
\* the handler returns (74-76), in the headers the loop ends (92-94), in the
\* body the answer is 400 (105-108).
HandlerReadTimeout ==
    /\ Waiting(conn)
    /\ conn.timer = ReadTimeout
    /\ conn' = CASE conn.pc = "line" -> AfterLineError(conn)
                 [] conn.pc = "headers" ->
                      [conn EXCEPT !.pc = "body", !.timer = 0, !.content_length = 0]
                 [] OTHER -> Respond(conn, 400)
    /\ UNCHANGED OtherVarsConn

\* (a variant that takes any body for an event)
AnswerUnparsed(c) ==
    Respond([c EXCEPT !.events = Append(@, c.route)], 200)

\* lines 110-128 and 161-190: parse the body, emit the event, answer
Answer(c) ==
    IF ~c.utf8 \/ ~IsJson(c.body)
    THEN Respond(c, 400)
    ELSE IF c.route = "hook" /\ GetStr(c.body, "'hook_event_name'") = ""
    THEN Respond(c, 400)
    ELSE Respond([c EXCEPT !.events = Append(@, c.route)], 200)

HandlerRespond ==
    /\ conn.pc = "respond"
    /\ conn' = Answer(conn)
    /\ UNCHANGED OtherVarsConn

-----------------------------------------------------------------------------
(* HookServer::start and Drop for HookServer: hook_server.rs 31-65 *)

\* how often the application is started
MaxStarts == 2

\* the ports the system hands out for 127.0.0.1:0
Ports == {49152, 49153, 49154}

OtherVarsServer ==
    <<sessions, saved_sessions, last_sessions, pending, ptys, readers, children,
      ret, hist, calls, rpc, eval, disk, thr, restart, conn>>

\* The server of one application process and ~/.touchgrass/app.port: file is
\* <<>> when there is none and <<port>> otherwise; home says that
\* dirs::home_dir() is Some, writable that the file can be written and removed.
InitHookServer ==
    /\ InitPty
    /\ rpc = NoRpc
    /\ eval = NoEval
    /\ restart = NoRestart
    /\ conn = NoConn
    /\ hooksrv \in { [pc |-> "idle", port |-> 0, file |-> <<>>, home |-> home,
                      writable |-> writable, starts |-> 0] :
                        home \in BOOLEAN, writable \in BOOLEAN }

\* lines 40-43: the write happens with a home directory, and its failure is
\* dropped
WritePortFile(s, port) == IF s.home /\ s.writable THEN <<port>> ELSE s.file

\* lines 59-64
RemovePortFile(s) == IF s.home /\ s.writable THEN <<>> ELSE s.file

\* lines 31-54: bind and local_addr succeed
HookServerStart(port) ==
    /\ hooksrv.pc # "running"
    /\ hooksrv.starts < MaxStarts
    /\ hooksrv' = [hooksrv EXCEPT !.pc = "running", !.port = port,
                                  !.file = WritePortFile(hooksrv, port),
                                  !.starts = @ + 1]
    /\ UNCHANGED OtherVarsServer

\* lines 32-37: bind or local_addr fails, start returns Err before the file
\* is touched
HookServerStartFail ==
    /\ hooksrv.pc # "running"
    /\ hooksrv.starts < MaxStarts
    /\ hooksrv' = [hooksrv EXCEPT !.pc = "failed", !.starts = @ + 1]
    /\ UNCHANGED OtherVarsServer

\* lines 57-65: the HookServer value is dropped
HookServerDrop ==
    /\ hooksrv.pc = "running"
    /\ hooksrv' = [hooksrv EXCEPT !.pc = "stopped", !.file = RemovePortFile(hooksrv)]
    /\ UNCHANGED OtherVarsServer

\* the process ends without running destructors: a kill signal, an abort,
\* std::process::exit, a power cut
HookServerKilled ==
    /\ hooksrv.pc = "running"
    /\ hooksrv' = [hooksrv EXCEPT !.pc = "killed"]
    /\ UNCHANGED OtherVarsServer

\* ~/.touchgrass stops or starts being writable
PortDirChanges ==
    /\ hooksrv.pc # "idle"
    /\ hooksrv' = [hooksrv EXCEPT !.writable = ~@]
    /\ UNCHANGED OtherVarsServer

-----------------------------------------------------------------------------
(* The two locks: pty_manager.rs 157-179, 188-202, 234-269, 305-309.  The   *)
(* commands run on threads of their own, one step per lock taken and per    *)
(* blocking call; thr[t].held is the set of locks thread t holds: "mgr" is  *)
(* the Mutex of the PtyManager, "state" the Mutex of the AppState.          *)

OtherVarsThreads == <<pending, ret, calls, rpc, eval, restart, hooksrv, conn>>

\* Mutex::lock returns when no thread holds the lock
Free(lock) == \A t \in Callers : lock \notin thr[t].held

Running(t, pc, op, id, held) ==
    [pc |-> pc, op |-> op, id |-> id, held |-> held, step |-> 0]

\* (a variant that drops the guard after the live table is changed, as
\* rename_session does at line 324)
HeldAfterLiveDropped == {}

\* lines 157 and 234: `mgr`, the guard of the PtyManager, lives to the end of
\* the function
HeldAfterLive == {"mgr"}

\* lines 44-158: the pty, the child and the reader are made, the PtyManager is
\* locked and the session inserted
SpawnLockLive(t, req) ==
    /\ thr[t].pc = "idle"
    /\ ptys < MaxSessions
    /\ Free("mgr")
    /\ LET rid == ptys + 1
           id == UuidOf(rid)
           info == SessionInfo(id, req.project_id, req.label, req.command,
                               req.channel, None)
       IN /\ ptys' = rid
          /\ readers' = MapInsert(readers, rid, NewReader(id))
          /\ children' = MapInsert(children, rid, NewChild)
          /\ sessions' = InsertLive(sessions, id, [info |-> info, rid |-> rid])
          /\ thr' = [thr EXCEPT ![t] = Running(t, "live_done", "spawn", id, HeldAfterLive)]
    /\ UNCHANGED <<saved_sessions, last_sessions, hist, disk>>
    /\ UNCHANGED OtherVarsThreads

\* lines 161-175: the AppState is locked and the saved and last sessions are
\* changed; save_state is entered
SpawnLockState(t) ==
    /\ thr[t].pc = "live_done"
    /\ thr[t].op = "spawn"
    /\ Free("state")
    /\ LET info == sessions[thr[t].id].info
       IN /\ saved_sessions' = UpsertSaved(saved_sessions, info)
          /\ last_sessions' = UpsertLast(last_sessions, info)
          /\ hist' = [hist EXCEPT ![info.id] = "spawned"]
    /\ thr' = [thr EXCEPT ![t].pc = "saving", ![t].held = @ \cup {"state"}]
    /\ UNCHANGED <<sessions, ptys, readers, children, disk>>
    /\ UNCHANGED OtherVarsThreads

\* lines 234-259: the PtyManager is locked, the session removed and signalled
KillLockLive(t, id) ==
    /\ thr[t].pc = "idle"
    /\ Free("mgr")
    /\ id \in DOMAIN sessions
    /\ sessions' = RemoveLive(sessions, id)
    /\ \E pidOk \in BOOLEAN : children' = StartWaiter(children, sessions[id].rid, pidOk)
    /\ thr' = [thr EXCEPT ![t] = Running(t, "live_done", "kill", id, HeldAfterLive)]
    /\ UNCHANGED <<saved_sessions, last_sessions, ptys, readers, hist, disk>>
    /\ UNCHANGED OtherVarsThreads

\* lines 262-266: the AppState is locked and the saved session removed;
\* save_state is entered
KillLockState(t) ==
    /\ thr[t].pc = "live_done"
    /\ thr[t].op = "kill"
    /\ Free("state")
    /\ saved_sessions' = KillSaved(saved_sessions, thr[t].id, TRUE)
    /\ hist' = [hist EXCEPT ![thr[t].id] = IF @ = "spawned" THEN "killed" ELSE @]
    /\ thr' = [thr EXCEPT ![t].pc = "saving", ![t].held = @ \cup {"state"}]
    /\ UNCHANGED <<sessions, last_sessions, ptys, readers, children, disk>>
    /\ UNCHANGED OtherVarsThreads

\* lines 305-308: close_saved_session locks the AppState only
CloseLockState(t, id) ==
    /\ thr[t].pc = "idle"
    /\ Free("state")
    /\ CountIn(saved_sessions, id) > 0
    /\ saved_sessions' = Retain(saved_sessions, id)
    /\ thr' = [thr EXCEPT ![t] = Running(t, "saving", "close", id, {"state"})]
    /\ UNCHANGED <<sessions, last_sessions, ptys, readers, children, hist, disk>>
    /\ UNCHANGED OtherVarsThreads

\* config.rs 83-91 and the end of the command: the file is written, the
\* guards go out of scope
SaveStateDone(t) ==
    /\ thr[t].pc = "saving"
    /\ disk' = SaveState(disk, saved_sessions, last_sessions)
    /\ thr' = [thr EXCEPT ![t] = NoThread]
    /\ UNCHANGED <<sessions, saved_sessions, last_sessions, ptys, readers, children, hist>>
    /\ UNCHANGED OtherVarsThreads

\* lines 188-189: write_to_session locks the PtyManager, finds the session and
\* enters write_all
WriteLock(t, id) ==
    /\ thr[t].pc = "idle"
    /\ Free("mgr")
    /\ id \in DOMAIN sessions
    /\ thr' = [thr EXCEPT ![t] = Running(t, "writing", "write", id, {"mgr"})]
    /\ UNCHANGED <<sessions, saved_sessions, last_sessions, ptys, readers, children,
                   hist, disk>>
    /\ UNCHANGED OtherVarsThreads

\* lines 190-198: write_all and flush return, the guard goes out of scope
WriteDone(t) ==
    /\ thr[t].pc = "writing"
    /\ thr' = [thr EXCEPT ![t] = NoThread]
    /\ UNCHANGED <<sessions, saved_sessions, last_sessions, ptys, readers, children,
                   hist, disk>>
    /\ UNCHANGED OtherVarsThreads

-----------------------------------------------------------------------------
(* The order of the locks in every command: pty_manager.rs 157-177, 188-198, *)
(* 211-222, 234-267, 277-282, 291, 306-308, 320-331, 342-351, 361, and       *)
(* setup.rs 168-171.  A command is the sequence of its lock, unlock and      *)
(* blocking steps; the tables are left out.                                  *)

Commands ==
    { "spawn_session", "write_to_session", "resize_session", "kill_session",
      "list_sessions", "get_saved_sessions", "close_saved_session",
      "rename_session", "set_tool_session_id", "get_last_session",
      "spawn_setup_pty" }

\* (a variant of kill_session that cleans the saved sessions first)
LockingStateFirst(op) ==
    IF op = "kill_session"
    THEN <<"lock state", "io", "lock mgr", "unlock mgr", "unlock state">>
    ELSE <<"lock mgr", "unlock mgr">>

\* what each command does with the two locks, in the order of its lines; a
\* guard is unlocked where it goes out of scope or is dropped
Locking(op) ==
    CASE op \in {"spawn_session", "kill_session"} ->
           <<"lock mgr", "lock state", "io", "unlock state", "unlock mgr">>
      [] op \in {"write_to_session", "resize_session"} ->
           <<"lock mgr", "io", "unlock mgr">>
      [] op \in {"list_sessions", "spawn_setup_pty"} ->
           <<"lock mgr", "unlock mgr">>
      [] op = "rename_session" ->
           <<"lock mgr", "unlock mgr", "lock state", "io", "unlock state">>
      [] op \in {"close_saved_session", "set_tool_session_id"} ->
           <<"lock state", "io", "unlock state">>
      [] OTHER ->
           <<"lock state", "unlock state">>

\* the step a thread is at
Cur(t) == IF thr[t].pc = "run" THEN Locking(thr[t].op)[thr[t].step] ELSE "none"

LockOf(step) ==
    CASE step \in {"lock mgr", "unlock mgr"} -> "mgr"
      [] step \in {"lock state", "unlock state"} -> "state"
      [] OTHER -> "none"

\* the thread after its step: at the next one, or back from the command
Advance(th, held) ==
    IF th.step = Len(Locking(th.op))
    THEN NoThread
    ELSE [th EXCEPT !.step = @ + 1, !.held = held]

OtherVarsLocks ==
    <<sessions, saved_sessions, last_sessions, pending, ptys, readers, children,
      ret, hist, calls, rpc, eval, disk, restart, hooksrv, conn>>

CommandBegin(t, op) ==
    /\ thr[t].pc = "idle"
    /\ thr' = [thr EXCEPT ![t] = [pc |-> "run", op |-> op, id |-> None, held |-> {},
                                  step |-> 1]]
    /\ UNCHANGED OtherVarsLocks

\* Mutex::lock: returns when no thread holds the lock
CommandLock(t) ==
    /\ Cur(t) \in {"lock mgr", "lock state"}
    /\ Free(LockOf(Cur(t)))
    /\ thr' = [thr EXCEPT ![t] = Advance(@, @.held \cup {LockOf(Cur(t))})]
    /\ UNCHANGED OtherVarsLocks

CommandUnlock(t) ==
    /\ Cur(t) \in {"unlock mgr", "unlock state"}
    /\ thr' = [thr EXCEPT ![t] = Advance(@, @.held \ {LockOf(Cur(t))})]
    /\ UNCHANGED OtherVarsLocks

\* the write to the pty, the resize, the write of the state file returns
CommandIo(t) ==
    /\ Cur(t) = "io"
    /\ thr' = [thr EXCEPT ![t] = Advance(@, @.held)]
    /\ UNCHANGED OtherVarsLocks

-----------------------------------------------------------------------------
(* The request paths made of the caller's values: daemon.rs 326-372, 470-472, *)
(* and the request line: daemon.rs 52-54.  The fixed parts of a path are one  *)
(* model byte each.                                                           *)

\* lines 328 and 350: daemon_get_channel, daemon_remove_channel
ChannelPath(name) == <<"/config/channels/">> \o name

\* lines 357-358: daemon_remove_user
RemoveUserPath(channel_name, user_id) ==
    <<"/config/channels/">> \o channel_name \o <<"/users/">> \o urlencoding(user_id)

\* lines 368-369: daemon_remove_group
RemoveGroupPath(channel_name, chat_id) ==
    <<"/config/channels/">> \o channel_name \o <<"/groups/">> \o urlencoding(chat_id)

\* lines 470-472: daemon_recent_sessions
RecentSessionsPath(tool, cwd) ==
    <<"/sessions/recent?tool=">> \o urlencoding(tool) \o <<"&cwd=">> \o urlencoding(cwd)

\* lines 52-54: the first line of the request
RequestLine(method, path) == <<method, "SP">> \o path \o <<"SP", "HTTP/1.1", "CR", "LF">>

\* the values a second parameter takes
FewArgs == { <<>>, <<"a">>, <<"SP">>, <<"a", "/", "b">>, <<"LF", "a">>, <<"0xC3", "0xA9">> }

PathCalls ==
    { [f |-> "path", cmd |-> c, a |-> s, b |-> <<>>, done |-> FALSE, out |-> <<>>] :
        c \in {"daemon_get_channel", "daemon_remove_channel"}, s \in UrlArgs }
    \cup
    { [f |-> "path", cmd |-> c, a |-> s, b |-> u, done |-> FALSE, out |-> <<>>] :
        c \in {"daemon_remove_user", "daemon_remove_group", "daemon_recent_sessions"},
        s \in FewArgs, u \in FewArgs }

InitPath ==
    /\ InitPty
    /\ InitIdle
    /\ rpc = NoRpc
    /\ eval \in PathCalls

RequestLineOf(e) ==
    CASE e.cmd = "daemon_get_channel" -> RequestLine("GET", ChannelPath(e.a))
      [] e.cmd = "daemon_remove_channel" -> RequestLine("DELETE", ChannelPath(e.a))
      [] e.cmd = "daemon_remove_user" -> RequestLine("DELETE", RemoveUserPath(e.a, e.b))
      [] e.cmd = "daemon_remove_group" -> RequestLine("DELETE", RemoveGroupPath(e.a, e.b))
      [] OTHER -> RequestLine("GET", RecentSessionsPath(e.a, e.b))

PathCall ==
    /\ eval.f = "path"
    /\ ~eval.done
    /\ eval' = [eval EXCEPT !.done = TRUE, !.out = RequestLineOf(eval)]
    /\ UNCHANGED <<sessions, saved_sessions, last_sessions, pending, ptys, readers,
                   children, ret, hist, calls, rpc>>
    /\ UNCHANGED <<disk, thr, restart, hooksrv, conn>>

-----------------------------------------------------------------------------
(* Workspaces: workspace.rs over the state that config.rs's load_state
   returns.  eval holds the AppState fields the commands use: workspaces,
   projects (id and workspace_id) and active_workspace_id, and the command
   that ran last with its result. *)

MaxWorkspaces == 3

WsIds == {"personal", "w1", "w2"}
WsNames == {"Personal", "Work"}
Workspace(id, name) == [id |-> id, name |-> name]
Project(id, workspace_id) == [id |-> id, workspace_id |-> workspace_id]
ProjectIds == {"p1", "p2"}

HasWorkspace(workspaces, id) ==
    \E i \in 1..Len(workspaces) : workspaces[i].id = id

\* config.rs 18-38: the migration of the workspaces after the file is read
LoadWorkspaces(workspaces) ==
    IF workspaces = <<>> \/ ~HasWorkspace(workspaces, "personal")
    THEN IF ~HasWorkspace(workspaces, "personal")
         THEN <<Workspace("personal", "Personal")>> \o workspaces
         ELSE workspaces
    ELSE workspaces

LoadActive(active) == IF active = None THEN "personal" ELSE active

LoadProjects(projects) ==
    [i \in 1..Len(projects) |->
        IF projects[i].workspace_id = ""
        THEN [projects[i] EXCEPT !.workspace_id = "personal"]
        ELSE projects[i]]

NoWsRet == [op |-> "load", id |-> None, res |-> "Ok", moved |-> 0]

load_state(file) ==
    [f |-> "ws",
     workspaces |-> LoadWorkspaces(file.workspaces),
     projects |-> LoadProjects(file.projects),
     active_workspace_id |-> LoadActive(file.active_workspace_id),
     ret |-> NoWsRet]

\* state.rs 104-112: what a missing or unreadable file gives
DefaultState ==
    [workspaces |-> <<Workspace("personal", "Personal")>>,
     projects |-> <<>>,
     active_workspace_id |-> "personal"]

\* What the file can hold: the default, or workspaces, projects and an active
\* workspace written by an earlier version or by hand.
FileWorkspaces ==
    {<<>>} \cup {<<Workspace(a, "Personal")>> : a \in WsIds}
           \cup {<<Workspace(a, "Personal"), Workspace(b, "Work")>> : a, b \in WsIds}

FileProjects ==
    {<<>>} \cup {<<Project("p1", a)>> : a \in WsIds \cup {""}}
           \cup {<<Project("p1", a), Project("p2", b)>> : a, b \in WsIds \cup {""}}

StateFiles ==
    {DefaultState} \cup
    [workspaces : FileWorkspaces, projects : FileProjects,
     active_workspace_id : WsIds \cup {None}]

InitWs ==
    /\ InitPty
    /\ InitIdle
    /\ rpc = NoRpc
    /\ eval \in {load_state(file) : file \in StateFiles}

OtherVarsWs ==
    <<sessions, saved_sessions, last_sessions, pending, ptys, readers, children,
      ret, hist, calls, rpc, disk, thr, restart, hooksrv, conn>>

WsRet(op, id, res, moved) == [op |-> op, id |-> id, res |-> res, moved |-> moved]

\* The ids in use: a new uuid is none of them.
UsedWsIds(s) ==
    {s.workspaces[i].id : i \in 1..Len(s.workspaces)}
      \cup {s.projects[i].workspace_id : i \in 1..Len(s.projects)}
      \cup {s.active_workspace_id}

\* workspace.rs 14-25
add_workspace(id, name) ==
    /\ eval.f = "ws"
    /\ Len(eval.workspaces) < MaxWorkspaces
    /\ id \notin UsedWsIds(eval)
    /\ eval' = [eval EXCEPT !.workspaces = Append(@, Workspace(id, name)),
                            !.ret = WsRet("add", id, "Ok", 0)]
    /\ UNCHANGED OtherVarsWs

FirstWorkspace(workspaces, id) ==
    CHOOSE i \in 1..Len(workspaces) :
        /\ workspaces[i].id = id
        /\ \A j \in 1..(i - 1) : workspaces[j].id # id

\* workspace.rs 27-42
rename_workspace(id, name) ==
    /\ eval.f = "ws"
    /\ eval' =
         IF HasWorkspace(eval.workspaces, id)
         THEN [eval EXCEPT
                 !.workspaces[FirstWorkspace(eval.workspaces, id)].name = name,
                 !.ret = WsRet("rename", id, "Ok", 0)]
         ELSE [eval EXCEPT !.ret = WsRet("rename", id, "Workspace not found", 0)]
    /\ UNCHANGED OtherVarsWs

\* workspace.rs 54-58 with the projects left where they are
ReassignProjectsSkipped(projects, id) == projects

\* workspace.rs 54-58
ReassignProjects(projects, id) ==
    [i \in 1..Len(projects) |->
        IF projects[i].workspace_id = id
        THEN [projects[i] EXCEPT !.workspace_id = "personal"]
        ELSE projects[i]]

RetainWorkspaces(workspaces, id) ==
    SelectSeq(workspaces, LAMBDA w : w.id # id)

MovedBy(projects, id) ==
    Cardinality({i \in 1..Len(projects) : projects[i].workspace_id = id})

\* workspace.rs 44-66
AfterRemoveWorkspace(s, id) ==
    IF id = "personal"
    THEN [s EXCEPT !.ret = WsRet("remove", id, "Cannot delete the Personal workspace", 0)]
    ELSE IF ~HasWorkspace(s.workspaces, id)
    THEN [s EXCEPT !.ret = WsRet("remove", id, "Workspace not found", 0)]
    ELSE [s EXCEPT
            !.projects = ReassignProjects(@, id),
            !.workspaces = RetainWorkspaces(@, id),
            !.active_workspace_id = IF @ = id THEN "personal" ELSE @,
            !.ret = WsRet("remove", id, "Ok", MovedBy(s.projects, id))]

remove_workspace(id) ==
    /\ eval.f = "ws"
    /\ eval' = AfterRemoveWorkspace(eval, id)
    /\ UNCHANGED OtherVarsWs

\* workspace.rs 68-73: any id is taken
set_active_workspace(id) ==
    /\ eval.f = "ws"
    /\ eval' = [eval EXCEPT !.active_workspace_id = id,
                            !.ret = WsRet("set_active", id, "Ok", 0)]
    /\ UNCHANGED OtherVarsWs

HasProject(projects, id) ==
    \E i \in 1..Len(projects) : projects[i].id = id

FirstProject(projects, id) ==
    CHOOSE i \in 1..Len(projects) :
        /\ projects[i].id = id
        /\ \A j \in 1..(i - 1) : projects[j].id # id

\* workspace.rs 81-99
move_project_to_workspace(project_id, workspace_id) ==
    /\ eval.f = "ws"
    /\ eval' =
         IF ~HasWorkspace(eval.workspaces, workspace_id)
         THEN [eval EXCEPT !.ret = WsRet("move", workspace_id, "Workspace not found", 0)]
         ELSE IF ~HasProject(eval.projects, project_id)
         THEN [eval EXCEPT !.ret = WsRet("move", workspace_id, "Project not found", 0)]
         ELSE [eval EXCEPT
                 !.projects[FirstProject(eval.projects, project_id)].workspace_id =
                     workspace_id,
                 !.ret = WsRet("move", workspace_id, "Ok", 0)]
    /\ UNCHANGED OtherVarsWs

-----------------------------------------------------------------------------
(* reorder_presets (preset.rs 77-94) as a function of the presets and the
   list of ids.  The ids of the presets are distinct: add_preset gives a new
   uuid and load_state adds a default only when its id is missing. *)

MaxPresetIds == 3
MaxPresets == 3

PresetIds == {"claude", "codex", "pi"}
Preset(id) == [id |-> id, enabled |-> TRUE]

RECURSIVE DistinctSeqs(_, _)
DistinctSeqs(S, n) ==
    IF n = 0 THEN {<<>>}
    ELSE {<<>>} \cup
         UNION {{<<x>> \o s : s \in DistinctSeqs(S \ {x}, n - 1)} : x \in S}

PresetLists == {[i \in 1..Len(s) |-> Preset(s[i])] : s \in DistinctSeqs(PresetIds, MaxPresets)}

IdLists == UNION {[1..n -> PresetIds \cup {"gone"}] : n \in 0..MaxPresetIds}

\* line 85: iter().position
Position(presets, id) ==
    IF \E i \in 1..Len(presets) : presets[i].id = id
    THEN CHOOSE i \in 1..Len(presets) :
           /\ presets[i].id = id
           /\ \A j \in 1..(i - 1) : presets[j].id # id
    ELSE 0

\* line 86 with the preset left in the list
RemoveAtKept(presets, pos) == presets

\* line 86: Vec::remove
RemoveAt(presets, pos) ==
    [i \in 1..(Len(presets) - 1) |-> IF i < pos THEN presets[i] ELSE presets[i + 1]]

\* lines 84-91: the loop over the ids, then the rest appended
RECURSIVE Reorder(_, _, _)
Reorder(presets, preset_ids, reordered) ==
    IF preset_ids = <<>> THEN reordered \o presets
    ELSE LET pos == Position(presets, Head(preset_ids))
         IN IF pos # 0
            THEN Reorder(RemoveAt(presets, pos), Tail(preset_ids),
                         Append(reordered, presets[pos]))
            ELSE Reorder(presets, Tail(preset_ids), reordered)

InitReorder ==
    /\ InitPty
    /\ InitIdle
    /\ rpc = NoRpc
    /\ eval \in [f : {"reorder"}, presets : PresetLists, preset_ids : IdLists,
                 before : {<<>>}, done : {FALSE}]
    /\ eval.presets # <<>> \/ eval.preset_ids = <<>>

\* preset.rs 77-94
reorder_presets ==
    /\ eval.f = "reorder"
    /\ ~eval.done
    /\ eval' = [eval EXCEPT !.presets = Reorder(eval.presets, eval.preset_ids, <<>>),
                            !.before = eval.presets,
                            !.done = TRUE]
    /\ UNCHANGED <<sessions, saved_sessions, last_sessions, pending, ptys, readers,
                   children, ret, hist, calls, rpc>>
    /\ UNCHANGED <<disk, thr, restart, hooksrv, conn>>

-----------------------------------------------------------------------------
(* Specifications *)

Rids == 1..MaxSessions

\* The commands.  The threads are created and left unscheduled: no command
\* reads what a thread writes, and no thread writes the tables or ret.
Next ==
    \/ Restart
    \/ \E msg \in SpawnFailures : SpawnFail(msg)
    \/ \E req \in SpawnRequests : SpawnBegin(req)
    \/ SpawnRegister
    \/ \E msg \in SetupFailures : SpawnSetupPtyFail(msg)
    \/ \E id \in SetupPtyIds : SpawnSetupPty(id)
    \/ \E id \in Ids : WriteToSession(id)
    \/ \E id \in Ids : ResizeSession(id)
    \/ \E id \in Ids : KillSession(id)
    \/ \E id \in Ids : CloseSavedSession(id)
    \/ \E id \in Ids, label \in RenameLabels : RenameSession(id, label)
    \/ \E id \in Ids, t \in ToolIds : SetToolSessionId(id, t)

Spec == Init /\ [][Next]_vars

\* The commands that create and end sessions, with the reader threads running.
NextReaders ==
    \/ \E req \in SpawnRequests : SpawnBegin(req)
    \/ SpawnRegister
    \/ \E id \in Ids : KillSession(id)
    \/ \E rid \in Rids : ReaderRead(rid)
    \/ \E rid \in Rids : ReaderEof(rid)
    \/ \E rid \in Rids : ReaderErr(rid)

SpecReaders == Init /\ [][NextReaders]_vars

\* how many exit-poll threads are polling
Polling == Cardinality({rid \in DOMAIN children : children[rid].waiter = "polling"})

\* The commands that create and end sessions, with the children and the
\* exit-poll threads running.
NextKill ==
    \/ \E req \in SpawnRequests : SpawnBegin(req)
    \/ SpawnRegister
    \/ \E id \in Ids : Polling < MaxWaiters /\ KillSession(id)
    \/ \E rid \in Rids : ChildExit(rid)
    \/ \E rid \in Rids : WaiterPoll(rid)
    \/ \E rid \in Rids : WaiterForceKill(rid)

SpecKill == Init /\ [][NextKill]_vars

\* Sessions are spawned, and rename_session is called from two threads.
NextRename ==
    \/ \E req \in SpawnRequests : SpawnBegin(req)
    \/ SpawnRegister
    \/ \E c \in Callers, id \in Ids, label \in ConcurrentLabels : RenameLockLive(c, id, label)
    \/ \E c \in Callers : RenameLockSaved(c)

SpecRename == Init /\ [][NextRename]_vars

\* The commands that write or could write last_sessions, with spawns that
\* differ in project, command, label and channel.
NextLast ==
    \/ \E req \in LastRequests : SpawnBegin(req)
    \/ SpawnRegister
    \/ \E id \in Ids : KillSession(id)
    \/ \E id \in Ids : CloseSavedSession(id)
    \/ \E id \in Ids, t \in ToolIds : SetToolSessionId(id, t)

SpecLast == Init /\ [][NextLast]_vars

\* decode_chunked applied to one body
NextChunked == DecodeChunkedCall

SpecChunked == InitChunked /\ [][NextChunked]_vars

\* One http_request call, from its first read to its return.
NextRpc ==
    \/ RpcRead
    \/ RpcReadEof
    \/ RpcReadErr
    \/ RpcFinish

SpecRpc == InitRpc /\ [][NextRpc]_vars

\* urlencoding applied to one string
NextUrl == UrlencodingCall

SpecUrl == InitUrl /\ [][NextUrl]_vars

\* The commands that save the state, with a state file whose writes can fail.
NextDisk ==
    \/ Restart
    \/ \E req \in SpawnRequests : SpawnBegin(req)
    \/ SpawnRegister
    \/ \E id \in Ids : KillSession(id)
    \/ \E id \in Ids : CloseSavedSession(id)
    \/ \E id \in Ids, label \in RenameLabels : RenameSession(id, label)
    \/ \E id \in Ids, t \in ToolIds : SetToolSessionId(id, t)
    \/ FsFails
    \/ FsRecovers

SpecDisk == Init /\ [][NextDisk]_vars

\* http_request with reads that a signal interrupts.
NextRpcRetry ==
    \/ RpcRead
    \/ RpcReadEof
    \/ RpcReadInterrupted
    \/ RpcReadErr
    \/ RpcFinish

SpecRpcRetry == InitRpc /\ [][NextRpcRetry]_vars

\* One daemon_restart call; every http_request of it succeeds or fails.
NextDaemonRestart ==
    \/ \E res \in {"Ok", "Err"} : DaemonRestartShutdown(res)
    \/ PidFileRemoved
    \/ DaemonRestartWait
    \/ DaemonRestartLaunch
    \/ \E res \in {"Ok", "Err"} : DaemonRestartHealthCheck(res)
    \/ DaemonRestartTimeout

SpecDaemonRestart == InitDaemonRestart /\ [][NextDaemonRestart]_vars

\* One connection to the Push Event Server, its handler and its peer.
NextHook ==
    \/ HandlerReadLine
    \/ HandlerReadHeaders
    \/ HandlerReadBody
    \/ HandlerRespond
    \/ HandlerReadTimeout
    \/ Tick
    \/ PeerDrip

SpecHook == InitHook /\ [][NextHook]_vars

\* The same, where the handler's thread runs, time passes and the dripping
\* peer goes on sending.
SpecHookLive == InitHook /\ [][NextHook]_vars /\ WF_vars(NextHook)

\* The Push Event Server over the runs of the application.
NextHookServer ==
    \/ \E port \in Ports : HookServerStart(port)
    \/ HookServerStartFail
    \/ HookServerDrop
    \/ HookServerKilled
    \/ PortDirChanges

SpecHookServer == InitHookServer /\ [][NextHookServer]_vars

\* spawn_session, kill_session, close_saved_session and write_to_session
\* called from two threads.
NextThreads ==
    \/ \E t \in Callers, req \in SpawnRequests : SpawnLockLive(t, req)
    \/ \E t \in Callers : SpawnLockState(t)
    \/ \E t \in Callers, id \in Ids : KillLockLive(t, id)
    \/ \E t \in Callers : KillLockState(t)
    \/ \E t \in Callers, id \in Ids : CloseLockState(t, id)
    \/ \E t \in Callers : SaveStateDone(t)
    \/ \E t \in Callers, id \in Ids : WriteLock(t, id)
    \/ \E t \in Callers : WriteDone(t)

SpecThreads == Init /\ [][NextThreads]_vars

\* Every command, called from two threads, as its steps on the two locks.
NextLocks ==
    \/ \E t \in Callers, op \in Commands : CommandBegin(t, op)
    \/ \E t \in Callers : CommandLock(t)
    \/ \E t \in Callers : CommandUnlock(t)
    \/ \E t \in Callers : CommandIo(t)

SpecLocks == Init /\ [][NextLocks]_vars

\* The request line of a command, for every value of its parameters.
NextPath == PathCall

SpecPath == InitPath /\ [][NextPath]_vars

\* The workspace commands in any order over a loaded state.
NextWs ==
    \/ \E id \in WsIds \ {"personal"}, name \in WsNames : add_workspace(id, name)
    \/ \E id \in WsIds, name \in WsNames : rename_workspace(id, name)
    \/ \E id \in WsIds : remove_workspace(id)
    \/ \E id \in WsIds : set_active_workspace(id)
    \/ \E project_id \in ProjectIds, workspace_id \in WsIds :
          move_project_to_workspace(project_id, workspace_id)

SpecWs == InitWs /\ [][NextWs]_vars

\* reorder_presets for every list of presets and every list of ids.
NextReorder == reorder_presets

SpecReorder == InitReorder /\ [][NextReorder]_vars

-----------------------------------------------------------------------------
(* Properties *)

\* C1: after a successful spawn_session the returned id is the key of exactly
\* one live session and the id of exactly one saved session.
C1_SpawnRegistersOnce ==
    (ret.op = "spawn" /\ ret.res = "Ok") =>
        /\ ret.id \in DOMAIN sessions
        /\ Cardinality({k \in DOMAIN sessions : sessions[k].info.id = ret.id}) = 1
        /\ sessions[ret.id].info.id = ret.id
        /\ CountIn(saved_sessions, ret.id) = 1

C1_Witness ==
    /\ ret.op = "spawn" /\ ret.res = "Ok"
    /\ Cardinality(DOMAIN sessions) = 2
    /\ Len(saved_sessions) = 2

\* C2: a spawn_session that fails returns an error and leaves the live table,
\* saved_sessions and last_sessions as they were (and starts no reader, no child).
C2_SpawnFailureLeavesNothing ==
    [][(ret'.op = "spawn" /\ ret'.res # "Ok" /\ ret' # ret) =>
          /\ ret'.res \in SpawnFailures
          /\ UNCHANGED <<sessions, saved_sessions, last_sessions, pending, ptys,
                         readers, children>>]_vars

C2_Witness ==
    /\ ret.op = "spawn" /\ ret.res = "Failed to clone reader"
    /\ DOMAIN sessions # {}
    /\ Len(saved_sessions) = 1
    /\ ptys < MaxSessions

\* C3: what a reader has emitted is its reads' output events in read order,
\* followed, from its first zero-byte read or read error on, by one pty-exit
\* event and nothing more.
C3_ReaderEmitsInOrderExitsOnce ==
    \A rid \in DOMAIN readers :
        LET r == readers[rid]
        IN /\ Len(r.events) = r.reads + (IF r.done THEN 1 ELSE 0)
           /\ \A i \in 1..r.reads : r.events[i] = Event("output", i)
           /\ r.done => r.events[Len(r.events)] = Event("exit", 0)
           /\ r.done <=> r.last \in {"eof", "err"}

C3_Witness ==
    \E rid \in DOMAIN readers :
        /\ readers[rid].done
        /\ readers[rid].last = "err"
        /\ readers[rid].reads = 2
        /\ \E other \in DOMAIN readers : other # rid /\ ~readers[other].done

\* C4: while a session was spawned and kill_session was not called for its id
\* since, write_to_session on that id does not return 'Session not found'.
C4_WriteFindsUnkilledSession ==
    [][ret'.op = "write" =>
          \A id \in Ids :
             (hist[id] = "spawned" /\ WriteToSession(id)) =>
                 ret'.res # "Session not found"]_vars

C4_Witness ==
    /\ ret.op = "write" /\ ret.res = "Flush error"
    /\ \E id \in Ids : hist[id] = "spawned"
    /\ \E id \in Ids : hist[id] = "killed"

\* C5: kill_session always returns success and leaves no saved session with the
\* id; a call that repeats the call before it leaves the live table unchanged.
C5_KillIdempotent ==
    [][ret'.op = "kill" =>
          /\ ret'.res = "Ok"
          /\ CountIn(saved_sessions', ret'.id) = 0
          /\ ret'.rep => (ret.res = "Ok" /\ sessions' = sessions)]_vars

C5_Witness ==
    /\ ret.op = "kill" /\ ret.rep /\ ret.res = "Ok"
    /\ hist[ret.id] = "killed"
    /\ DOMAIN sessions # {}

\* C6: write_to_session and resize_session with an id that is not live return
\* 'Session not found' and change neither the live table nor the persisted state.
C6_WriteResizeUnknownId ==
    [][ret'.op \in {"write", "resize"} =>
          \A id \in Ids :
             (id \notin DOMAIN sessions /\ (WriteToSession(id) \/ ResizeSession(id))) =>
                 /\ ret'.res = "Session not found"
                 /\ UNCHANGED <<sessions, saved_sessions, last_sessions>>]_vars

C6_Witness ==
    /\ ret.op = "resize" /\ ret.res = "Session not found"
    /\ DOMAIN sessions # {}
    /\ DOMAIN sessions # {UuidOf(n) : n \in 1..MaxSessions}
    /\ Len(saved_sessions) > 0

C8_RenameUnknownIdReports ==
    [][\A id \in Ids, label \in RenameLabels :
          (/\ id \notin DOMAIN sessions
           /\ CountIn(saved_sessions, id) = 0
           /\ RenameSession(id, label)) => ret'.res = "Session not found"]_vars

\* C9: when kill_session has returned, the id is neither live nor saved,
\* whatever the child process has done by then.
C9_KillRemovesBeforeExit ==
    ret.op = "kill" =>
        /\ ret.id \notin DOMAIN sessions
        /\ CountIn(saved_sessions, ret.id) = 0

\* kill_session has returned and the child it signalled is still running,
\* its exit not yet polled once
C9_Witness ==
    /\ ret.op = "kill"
    /\ \E rid \in DOMAIN children :
          /\ readers[rid].sid = ret.id
          /\ children[rid].state = "running"
          /\ children[rid].waiter = "polling"
          /\ children[rid].polls = 0

\* C10: after rename_session(id, label) the live session with that id, if there
\* is one, and the saved session with that id, if there is one, carry the label.
C10_RenameReachesBoth ==
    ret.op = "rename" =>
        /\ ret.id \in DOMAIN sessions => sessions[ret.id].info.label = ret.arg
        /\ \A i \in 1..Len(saved_sessions) :
              saved_sessions[i].id = ret.id => saved_sessions[i].label = ret.arg

C10_Witness ==
    /\ ret.op = "rename"
    /\ ret.id \in DOMAIN sessions
    /\ CountIn(saved_sessions, ret.id) = 1
    /\ sessions[ret.id].info.label = "X"

\* C11: set_tool_session_id(id, t) for an id that is live and saved leaves the
\* live session's tool_session_id and the saved session's tool_session_id both t.
C11_ToolIdReachesBoth ==
    [][\A id \in Ids, t \in ToolIds :
          (/\ id \in DOMAIN sessions
           /\ CountIn(saved_sessions, id) = 1
           /\ SetToolSessionId(id, t)) =>
              /\ sessions'[id].info.tool_session_id = t
              /\ saved_sessions'[FindIndex(saved_sessions', id)].tool_session_id = t]_vars

\* C12: when two rename_session calls on the same id, each of which found the
\* session live, have both returned, the live session and the saved session
\* with that id carry the same label.
C12_ConcurrentRenamesAgree ==
    \A id \in Ids :
        (/\ \A c \in Callers : calls[c].pc = "done" /\ calls[c].id = id /\ calls[c].found
         /\ id \in DOMAIN sessions
         /\ CountIn(saved_sessions, id) = 1) =>
            sessions[id].info.label = saved_sessions[FindIndex(saved_sessions, id)].label

\* C13: saved_sessions holds at most one entry per id, and a saved id belongs
\* to at most one live session.
C13_SavedIdsUnique ==
    /\ \A i, j \in 1..Len(saved_sessions) :
          saved_sessions[i].id = saved_sessions[j].id => i = j
    /\ \A i \in 1..Len(saved_sessions) :
          Cardinality({k \in DOMAIN sessions :
                          sessions[k].info.id = saved_sessions[i].id}) <= 1

\* two sessions saved and live, one of them renamed and tagged
C13_Witness ==
    /\ Len(saved_sessions) = 2
    /\ \A i \in 1..2 : saved_sessions[i].id \in DOMAIN sessions
    /\ \E i \in 1..2 : /\ saved_sessions[i].label = "X"
                        /\ saved_sessions[i].tool_session_id = "t1"
    /\ ret.op = "set_tool"

\* C14: a successful spawn_session for project p makes last_sessions[p] that
\* spawn's command, label and channel with no tool session id, whatever p had
\* before, and leaves the other projects' entries; kill_session and
\* close_saved_session leave last_sessions as it is.
C14_LastSessionOverwritten ==
    [][/\ SpawnRegister =>
             LET req == pending[1].req
             IN /\ DOMAIN last_sessions' = DOMAIN last_sessions \cup {req.project_id}
                /\ last_sessions'[req.project_id] =
                      [command |-> req.command, label |-> req.label,
                       channel |-> req.channel, tool_session_id |-> None]
                /\ \A q \in DOMAIN last_sessions \ {req.project_id} :
                      last_sessions'[q] = last_sessions[q]
       /\ \A id \in Ids :
             (KillSession(id) \/ CloseSavedSession(id)) => last_sessions' = last_sessions]_vars

\* two spawns for project p1, both sessions killed since: nothing is live or
\* saved, and the project's entry is still there
C14_Witness ==
    /\ ret.op = "kill"
    /\ ptys = 2
    /\ sessions = EmptyMap
    /\ saved_sessions = <<>>
    /\ DOMAIN last_sessions = {"p1"}
    /\ last_sessions["p1"] = [command |-> "codex", label |-> "B", channel |-> "c1",
                              tool_session_id |-> None]

\* C15: decode_chunked on a well-formed chunked body returns the chunks'
\* payloads concatenated in order, up to the first zero-size chunk, whatever
\* follows that chunk.
C15_DecodesWellFormed ==
    (eval.f = "decode_chunked" /\ eval.done /\ eval.cut = 0) =>
        eval.out = [kind |-> "Ok", val |-> Payload(eval.chunks)]

C15_Witness ==
    /\ eval.f = "decode_chunked" /\ eval.done /\ eval.cut = 0
    /\ Len(eval.chunks) = 2
    /\ eval.chunks[1].data = <<"W", "i", "k", "i">>
    /\ eval.chunks[2].data = <<"p", "e", "d", "i", "a">>
    /\ Len(eval.after) > 2
    /\ eval.out.val = <<"W", "i", "k", "i", "p", "e", "d", "i", "a">>

\* the payload bytes among the first n bytes of the encoded chunks
RECURSIVE Collected(_, _)
Collected(chunks, n) ==
    IF chunks = <<>> THEN <<>>
    ELSE LET c == Head(chunks)
             start == Len(c.size_str) + 2
             len == Len(c.size_str) + 2 + Len(c.data) + 2
         IN IF n <= start THEN <<>>
            ELSE IF n < start + Len(c.data) THEN SubSeq(c.data, 1, n - start)
            ELSE c.data \o (IF n <= len THEN <<>> ELSE Collected(Tail(chunks), n - len))

\* C16: decode_chunked on a body cut off at any position after its first byte
\* returns successfully, with the payload bytes that arrived before the cut.
C16_TruncatedReturnsCollected ==
    (eval.f = "decode_chunked" /\ eval.done /\ eval.cut > 0) =>
        eval.out = [kind |-> "Ok", val |-> Collected(eval.chunks, eval.cut)]

C18_StatusDecidesResult ==
    (/\ rpc.pc = "done"
     /\ rpc.sep /\ rpc.sl.wf
     /\ rpc.response = rpc.sent
     /\ \A i \in 1..Len(rpc.body.bytes) : rpc.body.bytes[i] # "0xFF") =>
        rpc.result =
            IF rpc.sl.code >= 400
            THEN [kind |-> "Err",
                  val |-> IF rpc.body.error # <<>> THEN rpc.body.error
                          ELSE <<"HTTP ">> \o SubSeq(rpc.sl.line, 3, 5) \o <<": ">>
                                  \o rpc.body.bytes]
            ELSE [kind |-> "Ok", val |-> rpc.body.bytes]

C18_Witness ==
    /\ rpc.pc = "done"
    /\ rpc.sl.code = 404
    /\ rpc.framing = "chunked"
    /\ rpc.response = rpc.sent
    /\ rpc.body.error = <<"channel exists">>
    /\ rpc.result = [kind |-> "Err", val |-> <<"channel exists">>]

\* C19: a response with a malformed status line, without the separator of
\* headers and body, or with a byte that is not UTF-8 makes http_request
\* return an error that names the cause, never a success.
C19_MalformedAlwaysFails ==
    (/\ rpc.pc = "done"
     /\ rpc.response # <<>>
     /\ \/ ~rpc.sl.wf
        \/ ~rpc.sep
        \/ \E i \in 1..Len(rpc.response) : rpc.response[i] = "0xFF") =>
        /\ rpc.result.kind = "Err"
        /\ rpc.result.val \in { <<"Response is not valid UTF-8">>,
                                <<"Invalid HTTP response: no header/body separator">>,
                                <<"Invalid HTTP response: no status line">>,
                                <<"Invalid HTTP response: cannot parse status code">> }

\* the unreserved characters: ASCII letters, digits, '-', '_', '.', '~'
C20_Unreserved ==
    { "A", "B", "C", "D", "E", "F", "Z", "a", "b", "c", "d", "e", "f", "z",
      "0", "1", "2", "3", "4", "5", "6", "7", "8", "9", "-", "_", ".", "~" }

C20_UpperHex == <<"0", "1", "2", "3", "4", "5", "6", "7", "8", "9", "A", "B", "C", "D", "E", "F">>

\* what one input byte must have become: itself, or '%' and its value in two
\* upper-case hex digits
C20_Expected(b) ==
    IF b \in C20_Unreserved THEN <<b>>
    ELSE <<"%">> \o <<C20_UpperHex[(ByteCode(b) \div 16) + 1]>>
               \o <<C20_UpperHex[(ByteCode(b) % 16) + 1]>>

\* the offset in the output at which the i-th input byte's encoding starts
C20_Offset(arg, i) ==
    Cardinality({j \in 1..(i - 1) : arg[j] \in C20_Unreserved})
    + 3 * Cardinality({j \in 1..(i - 1) : arg[j] \notin C20_Unreserved})

\* C20: urlencoding maps every unreserved byte to itself and every other byte
\* to '%' and its two-digit upper-case hex value, in order, so that the output
\* holds unreserved characters and '%' only.
C20_UrlencodingEncodes ==
    (eval.f = "urlencoding" /\ eval.done) =>
        /\ Len(eval.out) = C20_Offset(eval.arg, Len(eval.arg) + 1)
        /\ \A i \in 1..Len(eval.arg) :
              SubSeq(eval.out, C20_Offset(eval.arg, i) + 1,
                     C20_Offset(eval.arg, i) + Len(C20_Expected(eval.arg[i])))
                 = C20_Expected(eval.arg[i])
        /\ \A k \in 1..Len(eval.out) : eval.out[k] \in C20_Unreserved \cup {"%"}

C20_Witness ==
    /\ eval.f = "urlencoding" /\ eval.done
    /\ eval.arg = <<"a", "SP", "b", "/", "c">>
    /\ eval.out = <<"a", "%", "2", "0", "b", "%", "2", "F", "c">>

\* C29: after spawn_session, kill_session, close_saved_session, rename_session
\* or set_tool_session_id has returned, the state file holds the saved sessions
\* and the last sessions that are in memory, a failed write included.
MutatingCommands == {"spawn", "kill", "close", "rename", "set_tool"}

C29_PersistedEqualsMemory ==
    ret.op \in MutatingCommands =>
        /\ disk.saved_sessions = saved_sessions
        /\ disk.last_sessions = last_sessions

\* C30: in the read loop of http_request a read of zero bytes ends the reading
\* with the buffered bytes untouched, and these bytes are what is parsed as the
\* response; an interrupted read leaves the call reading with every byte
\* buffered and every byte still to come.
C30_EofParsesInterruptedRetries ==
    [][ /\ rpc'.interrupts # rpc.interrupts =>
              /\ rpc'.pc = "reading"
              /\ rpc' = [rpc EXCEPT !.interrupts = @ + 1]
        /\ (~rpc.eof /\ rpc'.eof) =>
              /\ rpc'.pc = "parse"
              /\ rpc'.response = rpc.response
        /\ (rpc.eof /\ rpc'.pc = "done") =>
              rpc'.result = HttpResult(rpc.response) ]_vars

\* a call whose read was interrupted, which went on to read a response without
\* a declared length up to the peer's close, and returned its body
C30_Witness ==
    /\ rpc.pc = "done"
    /\ rpc.interrupts > 0
    /\ rpc.eof
    /\ rpc.framing = "none"
    /\ rpc.response = rpc.sent
    /\ rpc.result.kind = "Ok"
    /\ rpc.result.val # <<>>

\* C21: daemon_restart asks /health at most 50 times and only after it has
\* launched the new instance; it returns Ok at the first check that succeeds,
\* so no call is still checking after a success; it returns 'Daemon started but
\* health check timed out' exactly when 50 checks have failed; and whether
\* /shutdown succeeded or failed, the call ends only by a missing home
\* directory, by a failed launch, by the time-out or by a healthy answer.
TimedOut == Err(<<"Daemon started but health check timed out">>)

C21_HealthCheckBounded ==
    /\ restart.pc # "idle" =>
        /\ restart.checks <= MaxHealthChecks
        /\ restart.checks > 0 => restart.started
        /\ restart.pc = "health" => ~restart.healthy
        /\ (restart.pc = "done" /\ restart.healthy) => restart.result = Ok(<<"ok">>)
        /\ (restart.pc = "done" /\ restart.result.kind = "Ok") =>
              /\ restart.started
              /\ restart.healthy
        /\ (restart.pc = "done" /\ restart.result = TimedOut) <=>
              /\ restart.pc = "done"
              /\ restart.started
              /\ ~restart.healthy
              /\ restart.checks = MaxHealthChecks
        /\ (restart.pc = "done" /\ restart.result.kind = "Err") =>
              \/ ~restart.home
              \/ restart.install \in {"none", "dev_bad"}
              \/ ~restart.spawn_ok
              \/ restart.result = TimedOut

\* a call whose /shutdown failed and which still launched the daemon and
\* returned Ok at a health check after earlier ones had failed
C21_Witness ==
    /\ restart.pc = "done"
    /\ restart.shutdown = "Err"
    /\ restart.result = Ok(<<"ok">>)
    /\ restart.checks > 1
    /\ restart.checks < MaxHealthChecks

\* C22: for a request that arrives whole, the answer goes by the route: 405
\* when the method is not POST; 400 for POST /event with a body that is no
\* JSON; 400 for POST /hook/<id> without a hook_event_name or with an empty
\* one; 404 for POST /hook/ and for POST to any other path; 200 for POST /event
\* and POST /hook/<id> with a JSON body of the declared length (and a name).
Whole(c) == c.peer.fault = "none" /\ Len(c.line) >= 2

Method(c) == c.line[1]

Path(c) == c.line[2]

Declares(c) == c.hdr \in {"exact", "upper"}

C22_AnswersByRoute ==
    (conn.pc = "done" /\ Whole(conn)) =>
        /\ Len(conn.responses) = 1
        /\ Method(conn) # "POST" => conn.responses = <<405>>
        /\ (Method(conn) = "POST" /\ Path(conn) = <<"/event">> /\ ~IsJson(conn.sent))
              => conn.responses = <<400>>
        /\ (Method(conn) = "POST" /\ Path(conn) = <<"/hook/", "s1">>
              /\ GetStr(conn.sent, "'hook_event_name'") = "")
              => conn.responses = <<400>>
        /\ (Method(conn) = "POST" /\ Path(conn) = <<"/hook/">>)
              => conn.responses = <<404>>
        /\ (Method(conn) = "POST" /\ Path(conn) \notin {<<"/event">>, <<"/hook/", "s1">>})
              => conn.responses = <<404>>
        /\ (Method(conn) = "POST" /\ Path(conn) = <<"/event">> /\ IsJson(conn.sent)
              /\ Declares(conn))
              => conn.responses = <<200>>
        /\ (Method(conn) = "POST" /\ Path(conn) = <<"/hook/", "s1">> /\ IsJson(conn.sent)
              /\ GetStr(conn.sent, "'hook_event_name'") # "" /\ Declares(conn))
              => conn.responses = <<200>>

\* a POST /hook/s1 with a named event that was answered 200
C22_Witness ==
    /\ conn.pc = "done"
    /\ Whole(conn)
    /\ Method(conn) = "POST"
    /\ Path(conn) = <<"/hook/", "s1">>
    /\ conn.sent = <<"{", "'hook_event_name'", ":", "'Stop'", "}">>
    /\ conn.hdr = "upper"
    /\ conn.responses = <<200>>

\* C23: when a handler has ended, the connection has got exactly one response,
\* and one event went to the UI bus if that response is 200 and none otherwise.
EventsMatchResponse ==
    conn.pc = "done" =>
        Len(conn.events) = (IF conn.responses = <<200>> THEN 1 ELSE 0)

C23_OneResponsePerConnection ==
    /\ conn.pc = "done" => Len(conn.responses) = 1
    /\ EventsMatchResponse

\* C25: every connection handler ends, whatever the peer does.
C25_HandlerTerminates == <>(conn.pc = "done")

\* the handlers whose peer does not drip in the request line or in the
\* headers end
OtherPeersTerminate ==
    (conn.peer.fault = "drip" /\ conn.peer.stage # "body") \/ <>(conn.pc = "done")

\* C24: while the server runs, the discovery-port file holds its port; once
\* the server has stopped, by a drop or by the end of the process, there is
\* no such file.
C24_PortFileFollowsServer ==
    /\ hooksrv.pc = "running" => hooksrv.file = <<hooksrv.port>>
    /\ hooksrv.pc \in {"stopped", "killed"} => hooksrv.file = <<>>

\* C27: kill_session of a live session whose child has a pid above 1 signals
\* the child's process group before the exit-poll thread makes its first poll;
\* the thread polls at most 20 times, ends without child.kill() at the first
\* poll that finds the child exited, and calls child.kill() exactly when 20
\* polls have found it running.
WaiterStep(c, d) == c.waiter = "polling" /\ (d.waiter # c.waiter \/ d.polls # c.polls)

C27_SignalPollForceKill ==
    [][\A rid \in DOMAIN children \cap DOMAIN children' :
         LET c == children[rid]
             d == children'[rid]
         IN /\ (c.waiter = "none" /\ d.waiter = "polling") =>
                  /\ d.polls = 0
                  /\ ~d.forced
                  /\ d.pid_gt1 => d.signalled
            /\ c.polls <= MaxPolls
            /\ WaiterStep(c, d) =>
                  IF c.polls = MaxPolls
                  THEN d.waiter = "done" /\ d.forced
                  ELSE IF c.state = "exited"
                  THEN d.waiter = "done" /\ ~d.forced
                  ELSE d.waiter = "polling" /\ d.polls = c.polls + 1 /\ ~d.forced]_vars

\* a child that was signalled, kept running through 20 polls and was then
\* force-killed
C27_Witness ==
    \E rid \in DOMAIN children :
        /\ children[rid].signalled
        /\ children[rid].waiter = "done"
        /\ children[rid].forced
        /\ children[rid].state = "killed"

\* C26: a thread that is in a blocking call, the write to a pty or the write
\* of the state file, holds neither the PtyManager lock nor the AppState lock.
InBlockingIo(t) == thr[t].pc \in {"writing", "saving"}

C26_NoLockAcrossIo ==
    \A t \in Callers : InBlockingIo(t) => thr[t].held = {}

\* C28: between the change of the live table by spawn_session or kill_session
\* and the change of the saved sessions that goes with it, no other thread
\* takes the PtyManager lock and the live table stays as it is.
BetweenChanges(t) == thr[t].pc = "live_done"

C28_LiveAndSavedChangeTogether ==
    [][\A t \in Callers :
          (BetweenChanges(t) /\ BetweenChanges(t)') =>
              /\ sessions' = sessions
              /\ \A u \in Callers \ {t} :
                    /\ "mgr" \notin thr[u].held
                    /\ "mgr" \notin thr'[u].held]_vars

\* one thread has inserted its session and not yet saved it, while the other
\* has come back from a command and is idle
C28_Witness ==
    \E t \in Callers, u \in Callers :
        /\ t # u
        /\ BetweenChanges(t)
        /\ thr[t].op = "spawn"
        /\ thr[u].pc = "idle"
        /\ Len(saved_sessions) > 0

\* C31: no command takes the PtyManager lock while it holds the AppState lock,
\* and no thread waits for a lock whose holder cannot go on: the holder of a
\* lock a thread waits for is at a step that needs no lock, or needs one that
\* is free.
CanStep(u) == Cur(u) \notin {"lock mgr", "lock state"} \/ Free(LockOf(Cur(u)))

C31_LockOrderNoDeadlock ==
    \A t \in Callers :
        /\ Cur(t) = "lock mgr" => "state" \notin thr[t].held
        /\ thr[t].pc = "run" =>
              \/ CanStep(t)
              \/ \E u \in Callers \ {t} : LockOf(Cur(t)) \in thr[u].held /\ CanStep(u)

\* spawn_session holds the PtyManager lock and waits for the AppState lock,
\* which a close_saved_session in save_state holds
C31_Witness ==
    \E t \in Callers, u \in Callers :
        /\ thr[t].pc = "run" /\ thr[t].op = "spawn_session"
        /\ Cur(t) = "lock state"
        /\ thr[u].pc = "run" /\ thr[u].op = "close_saved_session"
        /\ Cur(u) = "io"

\* C32: a reader has put an event on the UI bus only for a session that has
\* been registered in the live table.
C32_NoEventBeforeRegistered ==
    \A rid \in DOMAIN readers :
        readers[rid].events # <<>> => hist[readers[rid].sid] # "never"

\* C33: the step in which a reader ends, at the end of the pty's output or at a
\* read error, leaves the live table and the saved sessions as they are; and a
\* session whose reader has ended and for which kill_session was not called is
\* in the live table, is listed by list_sessions for its project and is found
\* by write_to_session.
C33_ReaderEndKeepsSession ==
    [][\A rid \in DOMAIN readers' :
          LET r == readers'[rid]
          IN /\ (rid \in DOMAIN readers /\ ~readers[rid].done /\ r.done) =>
                   /\ sessions' = sessions
                   /\ saved_sessions' = saved_sessions
             /\ (r.done /\ hist'[r.sid] = "spawned") =>
                   /\ r.sid \in DOMAIN sessions'
                   /\ \E req \in SpawnRequests :
                         sessions'[r.sid].info \in ListSessions(req.project_id)'
                   /\ WriteResult(sessions', r.sid, "Ok") = "Ok"]_vars

\* a registered session whose reader has ended at an error and that is live
C33_Witness ==
    \E rid \in DOMAIN readers :
        /\ readers[rid].done
        /\ readers[rid].last = "err"
        /\ hist[readers[rid].sid] = "spawned"
        /\ readers[rid].sid \in DOMAIN sessions

\* C34: a command that takes an entry out of the live table, or puts another
\* session in its place, is kill_session for the entry's id.
Displaced(id) == id \notin DOMAIN sessions' \/ sessions'[id].rid # sessions[id].rid

C34_OnlyKillDisplaces ==
    [][\A id \in DOMAIN sessions :
          (Displaced(id) /\ ret'.op # "none") => (ret'.op = "kill" /\ ret'.id = id)]_vars

\* the commands other than spawn_setup_pty displace no entry but by kill_session
OnlyKillAndSetupDisplace ==
    [][\A id \in DOMAIN sessions :
          (Displaced(id) /\ ret'.op \notin {"none", "setup"}) =>
              (ret'.op = "kill" /\ ret'.id = id)]_vars

\* C35: when set_tool_session_id(id, t) puts t into last_sessions[p], the
\* command, label and channel of last_sessions[p] are those of the session id,
\* so of the spawn that wrote them.
C35_ToolIdStaysWithItsLaunch ==
    [][\A id \in Ids, t \in ToolIds :
          (SetToolSessionId(id, t) /\ last_sessions' # last_sessions) =>
              LET s == saved_sessions[FindIndex(saved_sessions, id)]
                  last == last_sessions'[s.project_id]
              IN /\ last.command = s.command
                 /\ last.label = s.label
                 /\ last.channel = s.channel]_vars

\* C36: when the response declares Content-Length N and http_request returns
\* Ok, the body returned has N bytes.
C36_BodyHasDeclaredLength ==
    (rpc.pc = "done" /\ rpc.content_length # <<>> /\ rpc.result.kind = "Ok") =>
        Len(rpc.result.val) = rpc.content_length[1]

\* the same for the bodies that are too short only
NoTruncatedSuccess ==
    (rpc.pc = "done" /\ rpc.content_length # <<>> /\ rpc.result.kind = "Ok") =>
        Len(rpc.result.val) >= rpc.content_length[1]

\* C37: in the request line of a command, between the method and the version,
\* every byte that is no fixed part of the path is an unreserved character or
\* belongs to a %XX escape.
PathOf(line) == SubSeq(line, 3, Len(line) - 4)

C37_PathValuesEncoded ==
    (eval.f = "path" /\ eval.done) =>
        \A i \in 1..Len(PathOf(eval.out)) :
            LET b == PathOf(eval.out)[i]
            IN b \in UrlBytes => (b = "%" \/ IsUnreserved(ByteCode(b)))

\* the same for the values that go through urlencoding: all but the channel
\* name
EncodedValuesEncoded ==
    (eval.f = "path" /\ eval.done /\ (eval.cmd = "daemon_recent_sessions"
                                       \/ \A i \in 1..Len(eval.a) : IsUnreserved(ByteCode(eval.a[i])))) =>
        \A i \in 1..Len(PathOf(eval.out)) :
            LET b == PathOf(eval.out)[i]
            IN b \in UrlBytes => (b = "%" \/ IsUnreserved(ByteCode(b)))

\* C38: daemon_restart has launched the new daemon only when the pid file of
\* the old one was gone.
C38_LaunchAfterPidFileGone ==
    [][(~restart.started /\ restart'.started) => ~restart.pid_file]_vars

\* C39: over a loaded state and the workspace commands in any order, a
\* workspace with id "personal" exists; remove_workspace("personal") fails
\* and changes nothing; a remove_workspace of another workspace leaves every
\* project that was in it in "personal", the other projects where they were,
\* and no workspace of that id.
RemovedWell(s, t, id) ==
    /\ Len(t.projects) = Len(s.projects)
    /\ \A i \in 1..Len(s.projects) :
          /\ t.projects[i].id = s.projects[i].id
          /\ t.projects[i].workspace_id =
               IF s.projects[i].workspace_id = id THEN "personal"
               ELSE s.projects[i].workspace_id
    /\ ~HasWorkspace(t.workspaces, id)

C39_PersonalWorkspaceStays ==
    /\ [](eval.f = "ws" => HasWorkspace(eval.workspaces, "personal"))
    /\ [][(eval'.ret.op = "remove" /\ eval' # eval) =>
            /\ eval'.ret.id = "personal" =>
                 /\ eval'.ret.res = "Cannot delete the Personal workspace"
                 /\ eval'.workspaces = eval.workspaces
                 /\ eval'.projects = eval.projects
                 /\ eval'.active_workspace_id = eval.active_workspace_id
            /\ (eval'.ret.id # "personal" /\ HasWorkspace(eval.workspaces, eval'.ret.id)) =>
                 /\ eval'.ret.res = "Ok"
                 /\ RemovedWell(eval, eval', eval'.ret.id)]_vars

C39_Witness ==
    /\ eval.f = "ws"
    /\ eval.ret.op = "remove" /\ eval.ret.res = "Ok" /\ eval.ret.moved = 2
    /\ HasWorkspace(eval.workspaces, "personal")
    /\ Len(eval.workspaces) = 2
    /\ \A i \in 1..Len(eval.projects) : eval.projects[i].workspace_id = "personal"

\* C40: reorder_presets yields a permutation of the presets it had: none is
\* lost or doubled; the presets whose ids are in the list come first, in the
\* order of the first occurrence of their ids in the list; unknown and
\* repeated ids change nothing; the presets not named follow in the order
\* they had.
IdsOf(list) == {list[i] : i \in 1..Len(list)}

FirstAt(list, x) == CHOOSE i \in 1..Len(list) : list[i] = x /\ \A j \in 1..(i - 1) : list[j] # x

Named(e) == {p \in IdsOf(e.before) : p.id \in IdsOf(e.preset_ids)}

C40_ReorderIsPermutation ==
    (eval.f = "reorder" /\ eval.done) =>
        LET out == eval.presets
            k == Cardinality(Named(eval))
        IN /\ Len(out) = Len(eval.before)
           /\ IdsOf(out) = IdsOf(eval.before)
           /\ \A i \in 1..Len(out) : (i <= k) <=> (out[i] \in Named(eval))
           /\ \A i, j \in 1..Len(out) :
                 i < j =>
                    /\ j <= k => FirstAt(eval.preset_ids, out[i].id)
                                   < FirstAt(eval.preset_ids, out[j].id)
                    /\ i > k => FirstAt(eval.before, out[i]) < FirstAt(eval.before, out[j])

C40_Witness ==
    /\ eval.f = "reorder" /\ eval.done
    /\ eval.preset_ids = <<"pi", "gone", "pi">>
    /\ eval.before = <<Preset("claude"), Preset("codex"), Preset("pi")>>
    /\ eval.presets = <<Preset("pi"), Preset("claude"), Preset("codex")>>

====
